---- MODULE Spec2Model ----
(***************************************************************************)
(* cpp-signal: signals, slots and slot trackers.                           *)
(*                                                                         *)
(* Part 1 models cpp_signal<>::slot_tracker / signal (cpp-signal.h) as     *)
(* used from a single thread with the default cpp_signal_no_locking        *)
(* policy: every tracker owns a forward_list of tracked_slot records, and  *)
(* connect, disconnect, copy, destruction and emit are the operations.     *)
(***************************************************************************)
EXTENDS Integers, Sequences, FiniteSets, TLC

(***************************************************************************)
(* The objects of the model.  A tracker is named by its address; a         *)
(* destroyed tracker's address can be constructed again.                   *)
(***************************************************************************)
Signals == {"A", "B", "C"}          \* cpp_signal<>::signal<void(int)> objects
Receivers == {"r", "q"}             \* objects of a class deriving from slot_tracker
Trackers == Signals \cup Receivers
Lambdas == {"f"}                    \* callable objects that derive from nothing
Null == "null"                      \* nullptr: the object of a global function
Args == {1}                         \* the values passed to emit

\* The programs checked: the objects a program declares.  One chains and
\* copies signals, one copies signals with a tracked and an untracked slot,
\* one copies receivers.
Programs == {{"A", "B", "C", "r"}, {"A", "B", "r", "f"}, {"A", "r", "q"}}

\* The longest registry (slots_) an operation may build.
MaxSlots == 2

\* The most records that the registries of a program hold together.
MaxRecords == 8

VARIABLES
  locking_policy, \* the TLockingPolicy of cpp_signal<TLockingPolicy> (fixed)
  stopped,   \* how the program stopped in a call that did not return, or Null
  owner,     \* the thread that owns each std::mutex, or Nobody
  objects,   \* the objects of the program (fixed)
  alive,     \* alive[t]: tracker t is constructed and not yet destroyed
  slots_,    \* slots_[t]: the forward_list<tracked_slot> of tracker t, front first
  conn,      \* conn[S][k]: connections of key k to signal S the caller asked for
  last,      \* the operation that led to this state
  log,       \* the slot invocations of the last emit, in order
  aslots,    \* aslots[t]: slots_ of the cpp_signal_async tracker t
  count_,    \* count_[t]: semaphore::count_ of the async tracker t
  prog,      \* prog[th]: what thread th still has to execute, next step first
  out,       \* out[k]: the slot invocations background task k has made
  ready,     \* ready[k]: the shared state of task k's future holds its result
  fut,       \* fut[c]: the task whose future caller c holds (NoTask: none)
  snap,      \* snap[k]: slots_ of the signal when task k was launched
  behind,    \* behind[c]: the operation c is in, and the emissions in flight at its start
  started,   \* the operations the caller threads have started
  local,     \* local[k]: the value, container or collected values task k has built
  shared,    \* shared[k]: the value stored in the shared state of task k's future
  job,       \* job[k]: the emission task k runs
  result,    \* what the last accumulate, accumulate_op or aggregate returned
  sink,      \* the values the last collect passed to its collector, in order
  order      \* the slots connected to the signal<int(int)>, oldest connection first

(***************************************************************************)
(* cpp_signal_util::slot: keys.                                            *)
(***************************************************************************)
\* slot::make_key: the pair (object, function)
make_key(obj, fun) == <<obj, fun>>

\* slot::bind<TObject>(obj) for a callable object, bind<TObject, TFunction>(obj)
\* for a member function and bind<TFunction>() for a global function.  The
\* function component is the wrapper generated for the callable's type.
bind(obj) ==
  IF obj = Null THEN make_key(Null, "global")
  ELSE IF obj \in Receivers THEN make_key(obj, "slot_int")
  ELSE make_key(obj, "operator()")

SlotObjects == Trackers \cup Lambdas
Keys == {bind(o) : o \in SlotObjects \cup {Null}}

\* copy_key that keeps the receiver of the source
copy_key_same(key, copied_obj) == key

\* slot::copy_key
copy_key(key, copied_obj) ==
  IF key[1] = Null THEN key ELSE make_key(copied_obj, key[2])

(***************************************************************************)
(* cpp_signal<>::slot_tracker: the registry primitives.  Each takes the    *)
(* registries s of all trackers and returns them after the call on `self`. *)
(***************************************************************************)
tracked_slot(key, tracker, call) == [key |-> key, tracker |-> tracker, call |-> call]

\* the registry that keeps its records oldest first
add_back(s, self, key, tracker, call) ==
  [s EXCEPT ![self] = Append(@, tracked_slot(key, tracker, call))]

\* slot_tracker::add: emplace_front
add(s, self, key, tracker, call) ==
  [s EXCEPT ![self] = <<tracked_slot(key, tracker, call)>> \o @]

\* a mirror recorded with the Call role
add_to_track_as_call(s, self, key, tracker) == add(s, self, key, tracker, TRUE)

add_to_call(s, self, key, tracker) == add(s, self, key, tracker, TRUE)

add_to_track(s, self, key, tracker) == add(s, self, key, tracker, FALSE)

\* remove that erases the first matching record only
remove_first(s, self, key, tracker) ==
  LET hits == {i \in DOMAIN s[self] :
                 s[self][i].key = key /\ s[self][i].tracker = tracker}
  IN IF hits = {} THEN s
     ELSE LET n == CHOOSE i \in hits : \A j \in hits : i <= j
          IN [s EXCEPT ![self] = SubSeq(@, 1, n - 1) \o SubSeq(@, n + 1, Len(@))]

\* remove that erases the last matching record only
remove_last(s, self, key, tracker) ==
  LET hits == {i \in DOMAIN s[self] :
                 s[self][i].key = key /\ s[self][i].tracker = tracker}
  IN IF hits = {} THEN s
     ELSE LET n == CHOOSE i \in hits : \A j \in hits : i >= j
          IN [s EXCEPT ![self] = SubSeq(@, 1, n - 1) \o SubSeq(@, n + 1, Len(@))]

\* remove that compares the key only
remove_by_key(s, self, key, tracker) ==
  [s EXCEPT ![self] = SelectSeq(@, LAMBDA slot : slot.key # key)]

\* slot_tracker::remove: remove_if over the whole list
remove(s, self, key, tracker) ==
  [s EXCEPT ![self] =
     SelectSeq(@, LAMBDA slot : ~(slot.key = key /\ slot.tracker = tracker))]

\* the loop of clear that tells the partners of the Track records only
RECURSIVE clear_loop_track_only(_, _, _)
clear_loop_track_only(s, list, self) ==
  IF list = <<>> THEN s
  ELSE LET slot == Head(list)
       IN clear_loop_track_only(IF ~slot.call
                                  THEN remove(s, slot.tracker, slot.key, self)
                                  ELSE s,
                                Tail(list), self)

\* clear that drops the own records and tells no partner
clear_own(s, self) == [s EXCEPT ![self] = <<>>]

\* slot_tracker::clear: the loop over the own records, then slots_.clear()
RECURSIVE clear_loop(_, _, _)
clear_loop(s, list, self) ==
  IF list = <<>> THEN s
  ELSE LET slot == Head(list)
       IN clear_loop(IF slot.tracker # self
                       THEN remove(s, slot.tracker, slot.key, self)
                       ELSE s,
                     Tail(list), self)

clear(s, self) == [clear_loop(s, s[self], self) EXCEPT ![self] = <<>>]

\* slot_tracker::empty
empty(s, self) == s[self] = <<>>

\* the loop of copy without the copy's own record of a tracked connection
RECURSIVE copy_loop_no_own(_, _, _, _)
copy_loop_no_own(s, list, self, other) ==
  IF list = <<>> THEN s
  ELSE LET ts == Head(list)
           copied_key == IF ~ts.call THEN copy_key(ts.key, self) ELSE ts.key
           s1 == IF ts.tracker = other
                   THEN add(s, self, copied_key, self, ts.call)
                   ELSE IF ts.call
                          THEN add_to_track(s, ts.tracker, copied_key, self)
                          ELSE add_to_call(s, ts.tracker, copied_key, self)
       IN copy_loop_no_own(s1, Tail(list), self, other)

\* the loop of copy that does not tell the signal to call the copied slot
RECURSIVE copy_loop_no_call_mirror(_, _, _, _)
copy_loop_no_call_mirror(s, list, self, other) ==
  IF list = <<>> THEN s
  ELSE LET ts == Head(list)
           copied_key == IF ~ts.call THEN copy_key(ts.key, self) ELSE ts.key
           s1 == IF ts.tracker = other
                   THEN add(s, self, copied_key, self, ts.call)
                   ELSE LET s2 == add(s, self, copied_key, ts.tracker, ts.call)
                        IN IF ts.call
                             THEN add_to_track(s2, ts.tracker, copied_key, self)
                             ELSE s2
       IN copy_loop_no_call_mirror(s1, Tail(list), self, other)

\* slot_tracker::copy: the loop over other.slots_, front to back.  Records are
\* only ever inserted in front of the iterator, so the loop sees the list as it
\* was when the copy began, also when other is the tracker itself.
RECURSIVE copy_loop(_, _, _, _)
copy_loop(s, list, self, other) ==
  IF list = <<>> THEN s
  ELSE LET ts == Head(list)
           copied_key == IF ~ts.call THEN copy_key(ts.key, self) ELSE ts.key
           s1 == IF ts.tracker = other
                   THEN add(s, self, copied_key, self, ts.call)
                   ELSE LET s2 == add(s, self, copied_key, ts.tracker, ts.call)
                        IN IF ts.call
                             THEN add_to_track(s2, ts.tracker, copied_key, self)
                             ELSE add_to_call(s2, ts.tracker, copied_key, self)
       IN copy_loop(s1, Tail(list), self, other)

\* a copy that clears the target before it copies
copy_cleared(s, self, other) == copy_loop(clear(s, self), s[other], self, other)

copy(s, self, other) == copy_loop(s, s[other], self, other)

(***************************************************************************)
(* cpp_signal<>::signal: connect / disconnect.  The overload is chosen by  *)
(* the type of the slot's object: one that has a slot_tracker is tracked.  *)
(***************************************************************************)
\* the add that leaves the tracker of the slot untold
signal_add_call_only(s, self, key, obj) ==
  add_to_call(s, self, key, IF obj \in Trackers THEN obj ELSE self)

\* signal::add, tracked and untracked
signal_add(s, self, key, obj) ==
  IF obj \in Trackers
    THEN add_to_track(add_to_call(s, self, key, obj), obj, key, self)
    ELSE add_to_call(s, self, key, self)

\* the remove that leaves the tracker of the slot untold
signal_remove_call_only(s, self, key, obj) ==
  remove(s, self, key, IF obj \in Trackers THEN obj ELSE self)

\* signal::remove, tracked and untracked
signal_remove(s, self, key, obj) ==
  IF obj \in Trackers
    THEN remove(remove(s, self, key, obj), obj, key, self)
    ELSE remove(s, self, key, self)

(***************************************************************************)
(* slot_tracker::call: the walk of emit.  A Call-role record is invoked    *)
(* through its key; a key whose object is a signal runs that signal's      *)
(* operator(), which is emit again.  The result is the list of invocations *)
(* [by, key, arg] in the order they are made.                              *)
(***************************************************************************)
\* the walk whose first invocation leaves a moved-from argument to the rest
RECURSIVE call_loop_moved(_, _, _, _)
call_loop_moved(s, list, self, arg) ==
  IF list = <<>> THEN <<>>
  ELSE LET slot == Head(list)
       IN IF ~slot.call THEN call_loop_moved(s, Tail(list), self, arg)
          ELSE <<[by |-> self, key |-> slot.key, arg |-> arg]>>
               \o (IF slot.key[1] \in Signals
                     THEN call_loop_moved(s, s[slot.key[1]], slot.key[1], arg)
                     ELSE <<>>)
               \o call_loop_moved(s, Tail(list), self, 0)

RECURSIVE call_loop(_, _, _, _)
call_loop(s, list, self, arg) ==
  IF list = <<>> THEN <<>>
  ELSE LET slot == Head(list)
           rest == call_loop(s, Tail(list), self, arg)
       IN IF ~slot.call THEN rest
          ELSE <<[by |-> self, key |-> slot.key, arg |-> arg]>>
               \o (IF slot.key[1] \in Signals
                     THEN call_loop(s, s[slot.key[1]], slot.key[1], arg)
                     ELSE <<>>)
               \o rest

call(s, self, arg) == call_loop(s, s[self], self, arg)

\* a walk that pops the records it has visited
walked_popped(s, self) == [s EXCEPT ![self] = <<>>]

\* the registries after the loop of call, accumulate, accumulate_op,
\* aggregate or collect of tracker self: the loop takes every record as
\* const auto& and TSlot(slot.key) is a temporary made from the key
walked(s, self) == s

(***************************************************************************)
(* A chain of signals that leads back to itself makes emit recurse without *)
(* end; the model keeps to registries on which every emit returns.         *)
(***************************************************************************)
Chained(s, t) ==
  {s[t][i].key[1] : i \in {j \in DOMAIN s[t] : s[t][j].call /\ s[t][j].key[1] \in Signals}}

RECURSIVE ChainedWithin(_, _, _)
ChainedWithin(s, T, n) ==
  IF n = 0 THEN T
  ELSE ChainedWithin(s, T \cup UNION {Chained(s, t) : t \in T}, n - 1)

Returns(s) ==
  \A t \in Signals : t \notin ChainedWithin(s, Chained(s, t), Cardinality(Signals))

RECURSIVE Total(_, _)
Total(s, T) ==
  IF T = {} THEN 0
  ELSE LET t == CHOOSE x \in T : TRUE IN Len(s[t]) + Total(s, T \ {t})

Fits(s) ==
  /\ \A t \in Trackers : Len(s[t]) <= MaxSlots
  /\ Total(s, Trackers) <= MaxRecords

(***************************************************************************)
(* The connections the caller asked for, as the specification counts them: *)
(* connect adds one, disconnect and the destruction of either end drop     *)
(* them, and a copy has the connections of its source on both sides.       *)
(***************************************************************************)
NoConn == [k \in Keys |-> 0]

conn_copy(c, self, other) ==
  [S \in Signals |-> [k \in Keys |->
     c[S][k]
     + (IF S = self /\ other \in Signals THEN c[other][k] ELSE 0)
     + (IF k = bind(self) THEN c[S][bind(other)] ELSE 0)]]

conn_destroy(c, self) ==
  [S \in Signals |-> [k \in Keys |->
     IF S = self \/ k = bind(self) THEN 0 ELSE c[S][k]]]

(***************************************************************************)
(* Part 2: the emissions that use the slots' return values, on a           *)
(* cpp_signal<>::signal<int(int)>: accumulate, accumulate_op, aggregate    *)
(* and collect.  The signal has two callable objects as slots; it can also *)
(* be connected as a slot of a signal<void(int)>, which leaves a           *)
(* Track-role record in its registry.                                      *)
(***************************************************************************)
IntSignal == "A"                    \* the signal<int(int)>
VoidSignal == "B"                   \* a signal<void(int)> the signal can be a slot of
IntLambdas == {"slot_one", "slot_two"}
AggObjects == {IntSignal, VoidSignal} \cup IntLambdas
Inits == {0, 3}                     \* the initial values passed to accumulate
IntArgs == {1, 5}                   \* the values passed to the emission
BinaryOps == {"minus", "shift"}     \* the binary operations passed to accumulate_op

\* TSlot(key).call(arg): slot_one returns its argument, slot_two twice that
slot_call(key, arg) ==
  IF key[1] = "slot_one" THEN arg
  ELSE IF key[1] = "slot_two" THEN arg * 2
  ELSE 0

\* binary_op(a, b): std::minus<int>, and an operation for which the order of
\* its applications shows in the result
binary_op(op, a, b) ==
  IF op = "minus" THEN a - b ELSE a * 10 + b

invocation(self, key, arg) == [by |-> self, key |-> key, arg |-> arg]

\* the loop that starts again from the initial value at every slot
RECURSIVE accumulate_loop_reset(_, _, _, _, _)
accumulate_loop_reset(list, self, init, op, arg) ==
  IF list = <<>> THEN [ret |-> init, calls |-> <<>>]
  ELSE LET slot == Head(list)
           rest == accumulate_loop_reset(Tail(list), self, init, op, arg)
       IN IF ~slot.call THEN rest
          ELSE [ret |-> IF rest.calls = <<>>
                          THEN (IF op = "plus" THEN init + slot_call(slot.key, arg)
                                ELSE binary_op(op, init, slot_call(slot.key, arg)))
                          ELSE rest.ret,
                calls |-> <<invocation(self, slot.key, arg)>> \o rest.calls]

\* the loop of accumulate (op = "plus": init = init + r) and of accumulate_op
\* (init = binary_op(init, r)); the value returned and the invocations made
RECURSIVE accumulate_loop(_, _, _, _, _)
accumulate_loop(list, self, init, op, arg) ==
  IF list = <<>> THEN [ret |-> init, calls |-> <<>>]
  ELSE LET slot == Head(list)
       IN IF ~slot.call THEN accumulate_loop(Tail(list), self, init, op, arg)
          ELSE LET r == slot_call(slot.key, arg)
                   value == IF op = "plus" THEN init + r ELSE binary_op(op, init, r)
                   rest == accumulate_loop(Tail(list), self, value, op, arg)
               IN [ret |-> rest.ret,
                   calls |-> <<invocation(self, slot.key, arg)>> \o rest.calls]

accumulate(s, self, init, arg) == accumulate_loop(s[self], self, init, "plus", arg)

accumulate_op(s, self, init, op, arg) == accumulate_loop(s[self], self, init, op, arg)

\* std::insert_iterator: *iterator = value inserts before the position the
\* iterator holds and moves the iterator past the new element
insert(container, iterator, value) ==
  [container |-> SubSeq(container, 1, iterator - 1) \o <<value>>
                   \o SubSeq(container, iterator, Len(container)),
   iterator |-> iterator + 1]

RECURSIVE aggregate_loop(_, _, _, _, _)
aggregate_loop(list, self, container, iterator, arg) ==
  IF list = <<>> THEN [ret |-> container, calls |-> <<>>]
  ELSE LET slot == Head(list)
       IN IF ~slot.call THEN aggregate_loop(Tail(list), self, container, iterator, arg)
          ELSE LET ins == insert(container, iterator, slot_call(slot.key, arg))
                   rest == aggregate_loop(Tail(list), self, ins.container, ins.iterator, arg)
               IN [ret |-> rest.ret,
                   calls |-> <<invocation(self, slot.key, arg)>> \o rest.calls]

\* TContainer container; std::inserter(container, container.end())
aggregate(s, self, arg) == aggregate_loop(s[self], self, <<>>, 1, arg)

\* the loop that hands the collector something for every record
RECURSIVE collect_loop_all(_, _, _, _)
collect_loop_all(list, self, collected, arg) ==
  IF list = <<>> THEN [ret |-> collected, calls |-> <<>>]
  ELSE LET slot == Head(list)
           rest == collect_loop_all(Tail(list), self,
                                    Append(collected, slot_call(slot.key, arg)), arg)
       IN [ret |-> rest.ret,
           calls |-> (IF slot.call THEN <<invocation(self, slot.key, arg)>> ELSE <<>>)
                       \o rest.calls]

\* the loop of collect; the collector keeps what it is passed
RECURSIVE collect_loop(_, _, _, _)
collect_loop(list, self, collected, arg) ==
  IF list = <<>> THEN [ret |-> collected, calls |-> <<>>]
  ELSE LET slot == Head(list)
       IN IF ~slot.call THEN collect_loop(Tail(list), self, collected, arg)
          ELSE LET rest == collect_loop(Tail(list), self,
                                        Append(collected, slot_call(slot.key, arg)), arg)
               IN [ret |-> rest.ret,
                   calls |-> <<invocation(self, slot.key, arg)>> \o rest.calls]

collect(s, self, arg) == collect_loop(s[self], self, <<>>, arg)

(***************************************************************************)
(* Part 3: cpp_signal_async<>::slot_tracker / signal (cpp-signal-async.h). *)
(* Caller threads run connect, disconnect and emit on an async signal; an  *)
(* emission runs its walk in a detached thread.  A thread's operation is   *)
(* the list of steps its code makes; a step that cannot be taken (a        *)
(* semaphore wait, a future wait) blocks the thread.  The policy mutex is  *)
(* held inside semaphore::wait and semaphore::notify only, so each is one  *)
(* step.                                                                   *)
(***************************************************************************)
AsyncSignals == {"S"}               \* cpp_signal_async<>::signal<void()> objects
AsyncReceivers == {"R"}             \* an object deriving from the async slot_tracker
AsyncTrackers == AsyncSignals \cup AsyncReceivers
AsyncLambdas == {"g"}               \* an untracked callable object
Callers == {<<"caller", 1>>, <<"caller", 2>>}   \* the threads that use the signal

\* The emissions of one run: each runs in a task thread of its own.
MaxEmits == 2

\* The operations the caller threads start in one run.
MaxOps == 4

Tasks == {<<"task", n>> : n \in 1 .. MaxEmits}
NoTask == <<"task", 0>>             \* a future that is not valid
Threads == Callers \cup Tasks

aggvars == <<result, sink, order>>

\* no aggregating emission has been made
AggIdle == result = Null /\ sink = <<>> /\ order = <<>>

\* cpp_signal<>: the default policy, and a program that runs
\* the mutexes: one in each tracker, and the static one of the global policy
Mutexes == Trackers \cup {"static"}

\* no thread
Nobody == <<"caller", 0>>

NoOwner == [m \in Mutexes |-> Nobody]

lockvars == <<locking_policy, stopped, owner>>

LockIdle == locking_policy = "cpp_signal_no_locking" /\ stopped = Null /\ owner = NoOwner

asyncvars == <<aslots, count_, prog, out, ready, fut, snap, behind, started,
               local, shared, job>>

\* the key of an async slot: slot::bind
async_bind(obj) ==
  IF obj \in AsyncReceivers THEN make_key(obj, "slot_void")
  ELSE make_key(obj, "operator()")

\* semaphore::wait: the predicate the condition variable waits for
wait_ready_late(c) == c >= -1

wait_ready(c) == c >= 0

\* a scoped_semaphore that does not notify when it leaves the scope
scoped_no_notify(t, body) == <<[i |-> "wait", t |-> t]>> \o body

\* scoped_semaphore around the body of add / remove
scoped(t, body) == <<[i |-> "wait", t |-> t]>> \o body \o <<[i |-> "notify", t |-> t]>>

\* async slot_tracker::add
async_add(t, key, tracker, to_call) ==
  scoped(t, <<[i |-> "add", t |-> t, key |-> key, tracker |-> tracker, call |-> to_call]>>)

\* async slot_tracker::remove
async_remove(t, key, tracker) ==
  scoped(t, <<[i |-> "remove", t |-> t, key |-> key, tracker |-> tracker]>>)

\* async signal::add, tracked and untracked
async_signal_add(S, key, obj) ==
  IF obj \in AsyncTrackers
    THEN async_add(S, key, obj, TRUE) \o async_add(obj, key, S, FALSE)
    ELSE async_add(S, key, S, TRUE)

\* async signal::remove, tracked and untracked
async_signal_remove(S, key, obj) ==
  IF obj \in AsyncTrackers
    THEN async_remove(S, key, obj) \o async_remove(obj, key, S)
    ELSE async_remove(S, key, S)

\* an emission: its kind, the initial value and the binary operation (of an
\* accumulation) and the argument passed to the slots
Job(kind, init, op, arg) == [kind |-> kind, init |-> init, op |-> op, arg |-> arg]

\* the lambda whose value starts from nothing instead of init
task_init_zero(j) ==
  IF j.kind \in {"accumulate", "accumulate_op"} THEN 0
  ELSE IF j.kind = "aggregate" THEN [container |-> <<>>, iterator |-> 1]
  ELSE IF j.kind = "collect" THEN <<>>
  ELSE Null

\* the locals of the task's lambda before its loop: value = init, an empty
\* container with its insert iterator, a collector that has been passed
\* nothing
task_init(j) ==
  IF j.kind \in {"accumulate", "accumulate_op"} THEN j.init
  ELSE IF j.kind = "aggregate" THEN [container |-> <<>>, iterator |-> 1]
  ELSE IF j.kind = "collect" THEN <<>>
  ELSE Null

\* one turn of the lambda's loop at a Call-role record
task_step(j, value, key) ==
  IF j.kind = "accumulate" THEN value + slot_call(key, j.arg)
  ELSE IF j.kind = "accumulate_op" THEN binary_op(j.op, value, slot_call(key, j.arg))
  ELSE IF j.kind = "aggregate"
    THEN insert(value.container, value.iterator, slot_call(key, j.arg))
  ELSE IF j.kind = "collect" THEN Append(value, slot_call(key, j.arg))
  ELSE value

\* what the lambda returns
task_return(j, value) ==
  IF j.kind \in {"accumulate", "accumulate_op"} THEN value
  ELSE IF j.kind = "aggregate" THEN value.container
  ELSE Null

\* the slots that throw when they are invoked
Throwers == {"thrower"}

\* async slot_tracker::call, in the thread of the caller: sem_.wait(), then
\* async() starts the task and returns its future
async_call(S) ==
  <<[i |-> "wait", t |-> S], [i |-> "async", t |-> S, job |-> Job("call", Null, Null, Null)]>>

\* the async accumulate, accumulate_op, aggregate and collect, in the thread
\* of the caller: as call, with the lambda of the emission
async_emission(S, j) == <<[i |-> "wait", t |-> S], [i |-> "async", t |-> S, job |-> j]>>

\* the task that releases the semaphore before it has walked the slots
call_task_early(S) ==
  <<[i |-> "notify", t |-> S], [i |-> "walk", t |-> S, pos |-> 1], [i |-> "set_value"]>>

\* the task that waits for the semaphore its caller has taken for it
call_task_wait_again(S) ==
  <<[i |-> "walk", t |-> S, pos |-> 1], [i |-> "wait", t |-> S],
    [i |-> "notify", t |-> S], [i |-> "set_value"]>>

\* the task that makes the future ready before it has walked the slots
call_task_value_first(S) ==
  <<[i |-> "set_value"], [i |-> "walk", t |-> S, pos |-> 1], [i |-> "notify", t |-> S]>>

\* async slot_tracker::call, the task: the loop over slots_, sem_.notify(),
\* and the packaged_task storing the result in the future's shared state
call_task(S) ==
  <<[i |-> "walk", t |-> S, pos |-> 1], [i |-> "notify", t |-> S], [i |-> "set_value"]>>

\* the Call-role keys of a registry, front first: what a walk of it invokes
CallKeys(list) ==
  LET calls == SelectSeq(list, LAMBDA slot : slot.call)
  IN [n \in DOMAIN calls |-> calls[n].key]

\* thread th holds the semaphore of tracker t: it has still to notify t (or to
\* hand the semaphore to its task) and is past the wait that acquired it
Holds(p, th, t) ==
  \E n \in DOMAIN p[th] :
    /\ p[th][n].i \in {"notify", "async"} /\ p[th][n].t = t
    /\ \A m \in 1 .. (n - 1) : ~(p[th][m].i = "wait" /\ p[th][m].t = t)

Holders(p, t) == {th \in Threads : Holds(p, th, t)}

\* the tasks whose walk of tracker t has not ended
Walkers(p, t) ==
  {k \in Tasks : \E n \in DOMAIN p[k] : p[k][n].i = "walk" /\ p[k][n].t = t}

\* the emissions of tracker t in flight: launched, semaphore not yet released
InFlight(p, t) == {k \in Tasks : Holds(p, k, t)}

\* the adds to tracker t that threads have still to make
PendingAdds(p, t) ==
  UNION {{<<c, n>> : n \in {m \in DOMAIN p[c] : p[c][m].i = "add" /\ p[c][m].t = t}} :
           c \in Callers}

\* the thread is in no operation
NoOp == [op |-> "none", obj |-> Null, tasks |-> {}]

AsyncIdle ==
  /\ aslots = [t \in AsyncTrackers |-> <<>>]
  /\ count_ = [t \in AsyncTrackers |-> 0]
  /\ prog = [th \in Threads |-> <<>>]
  /\ out = [k \in Tasks |-> <<>>]
  /\ ready = [k \in Tasks |-> FALSE]
  /\ fut = [c \in Callers |-> NoTask]
  /\ snap = [k \in Tasks |-> <<>>]
  /\ behind = [c \in Callers |-> NoOp]
  /\ started = 0
  /\ local = [k \in Tasks |-> Null]
  /\ shared = [k \in Tasks |-> Null]
  /\ job = [k \in Tasks |-> Null]

(***************************************************************************)
(* The operations.                                                         *)
(***************************************************************************)
Op(name, t, x) == [op |-> name, t |-> t, x |-> x]

Init ==
  /\ AsyncIdle
  /\ AggIdle
  /\ LockIdle
  /\ objects \in Programs
  /\ alive = [t \in Trackers |-> FALSE]
  /\ slots_ = [t \in Trackers |-> <<>>]
  /\ conn = [S \in Signals |-> NoConn]
  /\ last = Op("init", Null, Null)
  /\ log = <<>>

\* slot_tracker() / signal()
Construct(t) ==
  /\ UNCHANGED <<asyncvars, aggvars, lockvars>>
  /\ t \in objects /\ ~alive[t]
  /\ alive' = [alive EXCEPT ![t] = TRUE]
  /\ last' = Op("construct", t, Null)
  /\ log' = <<>>
  /\ UNCHANGED <<objects, slots_, conn>>

\* slot_tracker(const slot_tracker& other) / signal(const signal& other)
CopyConstruct(t, other) ==
  /\ UNCHANGED <<asyncvars, aggvars, lockvars>>
  /\ t \in objects /\ ~alive[t] /\ alive[other]
  /\ (t \in Signals) = (other \in Signals)
  /\ LET s == copy(slots_, t, other)
     IN /\ Fits(s) /\ Returns(s)
        /\ slots_' = s
  /\ alive' = [alive EXCEPT ![t] = TRUE]
  /\ conn' = conn_copy(conn, t, other)
  /\ last' = Op("copy_construct", t, other)
  /\ log' = <<>>
  /\ UNCHANGED objects

\* slot_tracker::operator=
CopyAssign(t, other) ==
  /\ UNCHANGED <<asyncvars, aggvars, lockvars>>
  /\ alive[t] /\ alive[other]
  /\ (t \in Signals) = (other \in Signals)
  /\ LET s == copy(slots_, t, other)
     IN /\ Fits(s) /\ Returns(s)
        /\ slots_' = s
  /\ conn' = conn_copy(conn, t, other)
  /\ last' = Op("copy_assign", t, other)
  /\ log' = <<>>
  /\ UNCHANGED <<objects, alive>>

\* ~slot_tracker()
Destroy(t) ==
  /\ UNCHANGED <<asyncvars, aggvars, lockvars>>
  /\ alive[t]
  /\ slots_' = clear(slots_, t)
  /\ alive' = [alive EXCEPT ![t] = FALSE]
  /\ conn' = conn_destroy(conn, t)
  /\ last' = Op("destroy", t, Len(slots_[t]))
  /\ log' = <<>>
  /\ UNCHANGED objects

\* signal::connect
Connect(S, obj) ==
  /\ UNCHANGED <<asyncvars, aggvars, lockvars>>
  /\ alive[S] /\ obj \in objects
  /\ obj \in Trackers => alive[obj] /\ obj # S
  /\ LET s == signal_add(slots_, S, bind(obj), obj)
     IN /\ Fits(s) /\ Returns(s)
        /\ slots_' = s
  /\ conn' = [conn EXCEPT ![S][bind(obj)] = @ + 1]
  /\ last' = Op("connect", S, obj)
  /\ log' = <<>>
  /\ UNCHANGED <<objects, alive>>

\* signal::disconnect
Disconnect(S, obj) ==
  /\ UNCHANGED <<asyncvars, aggvars, lockvars>>
  /\ alive[S] /\ obj \in objects
  /\ obj \in Trackers => alive[obj]
  /\ slots_' = signal_remove(slots_, S, bind(obj), obj)
  /\ conn' = [conn EXCEPT ![S][bind(obj)] = 0]
  /\ last' = Op("disconnect", S, obj)
  /\ log' = <<>>
  /\ UNCHANGED <<objects, alive>>

\* signal::emit
Emit(S, arg) ==
  /\ UNCHANGED <<asyncvars, aggvars, lockvars>>
  /\ alive[S]
  /\ log' = call(slots_, S, arg)
  /\ slots_' = walked(slots_, S)
  /\ last' = Op("emit", S, arg)
  /\ UNCHANGED <<objects, alive, conn>>

Next ==
  \/ \E t \in Trackers : Construct(t)
  \/ \E t, other \in Trackers : CopyConstruct(t, other)
  \/ \E t, other \in Trackers : CopyAssign(t, other)
  \/ \E t \in Trackers : Destroy(t)
  \/ \E S \in Signals, obj \in SlotObjects : Connect(S, obj)
  \/ \E S \in Signals, obj \in SlotObjects : Disconnect(S, obj)
  \/ \E S \in Signals, arg \in Args : Emit(S, arg)

vars == <<locking_policy, stopped, owner, objects, alive, slots_, conn, last, log,
          aslots, count_, prog, out, ready, fut, snap, behind, started,
          local, shared, job, result, sink, order>>

Spec == Init /\ [][Next]_vars

(***************************************************************************)
(* The async signal: what the caller threads start, and the steps.         *)
(***************************************************************************)
syncvars == <<objects, alive, slots_, conn, last, log, aggvars, lockvars>>

AsyncInit ==
  /\ AsyncIdle
  /\ AggIdle
  /\ LockIdle
  /\ objects = {}
  /\ alive = [t \in Trackers |-> FALSE]
  /\ slots_ = [t \in Trackers |-> <<>>]
  /\ conn = [S \in Signals |-> NoConn]
  /\ last = Op("init", Null, Null)
  /\ log = <<>>

\* no emission runs or has run in task thread k
Free(k) == prog[k] = <<>> /\ ~ready[k]

Begin(c, name, obj, program, S) ==
  /\ prog[c] = <<>>
  /\ started < MaxOps
  /\ started' = started + 1
  /\ prog' = [prog EXCEPT ![c] = program]
  /\ behind' = [behind EXCEPT ![c] = [op |-> name, obj |-> obj, tasks |-> InFlight(prog, S)]]
  /\ UNCHANGED <<syncvars, aslots, count_, out, ready, fut, snap, local, shared, job>>

\* signal.connect(obj)
AsyncConnect(c, S, obj) ==
  /\ Len(aslots[S]) + Cardinality(PendingAdds(prog, S)) < MaxSlots
  /\ obj \in AsyncTrackers =>
       Len(aslots[obj]) + Cardinality(PendingAdds(prog, obj)) < MaxSlots
  /\ Begin(c, "connect", obj, async_signal_add(S, async_bind(obj), obj), S)

\* signal.disconnect(obj)
AsyncDisconnect(c, S, obj) ==
  Begin(c, "disconnect", obj, async_signal_remove(S, async_bind(obj), obj), S)

\* the run has an emission left
EmitsLeft ==
  Cardinality({d \in Callers : \E n \in DOMAIN prog[d] : prog[d][n].i = "async"})
    + Cardinality({k \in Tasks : ~Free(k)}) < MaxEmits

\* future = signal.emit()
AsyncEmit(c, S) ==
  /\ EmitsLeft
  /\ Begin(c, "emit", Null, async_call(S), S)

\* future.wait()
FutureWait(c) ==
  /\ prog[c] = <<>> /\ fut[c] # NoTask
  /\ started < MaxOps
  /\ started' = started + 1
  /\ prog' = [prog EXCEPT ![c] = <<[i |-> "future_wait"]>>]
  /\ UNCHANGED <<syncvars, aslots, count_, out, ready, fut, snap, behind, local, shared, job>>

Next1(th) == Head(prog[th])

Pop(th) == prog' = [prog EXCEPT ![th] = Tail(@)]

\* the operation of a caller thread returns with its last step
Return(th) ==
  behind' = IF th \in Callers /\ Len(prog[th]) = 1 THEN [behind EXCEPT ![th] = NoOp] ELSE behind

\* semaphore::wait
SemWait(th) ==
  /\ prog[th] # <<>> /\ Next1(th).i = "wait"
  /\ wait_ready(count_[Next1(th).t])
  /\ count_' = [count_ EXCEPT ![Next1(th).t] = @ - 1]
  /\ Pop(th)
  /\ UNCHANGED <<syncvars, aslots, out, ready, fut, snap, behind, started, local, shared, job>>

\* semaphore::notify
SemNotify(th) ==
  /\ prog[th] # <<>> /\ Next1(th).i = "notify"
  /\ count_' = [count_ EXCEPT ![Next1(th).t] = @ + 1]
  /\ Pop(th)
  /\ UNCHANGED <<syncvars, aslots, out, ready, fut, snap, started, local, shared, job>>
  /\ Return(th)

\* the body of add: slots_.emplace_front
AddBody(th) ==
  /\ prog[th] # <<>> /\ Next1(th).i = "add"
  /\ aslots' = add(aslots, Next1(th).t, Next1(th).key, Next1(th).tracker, Next1(th).call)
  /\ Pop(th)
  /\ UNCHANGED <<syncvars, count_, out, ready, fut, snap, behind, started, local, shared, job>>

\* the body of remove: slots_.remove_if
RemoveBody(th) ==
  /\ prog[th] # <<>> /\ Next1(th).i = "remove"
  /\ aslots' = remove(aslots, Next1(th).t, Next1(th).key, Next1(th).tracker)
  /\ Pop(th)
  /\ UNCHANGED <<syncvars, count_, out, ready, fut, snap, behind, started, local, shared, job>>

\* slot_tracker::async: a packaged_task, its future, a detached thread
Launch(c) ==
  /\ prog[c] # <<>> /\ Next1(c).i = "async"
  /\ \E k \in Tasks :
       /\ Free(k)
       /\ \A j \in Tasks : Free(j) => k[2] <= j[2]
       /\ prog' = [prog EXCEPT ![c] = Tail(@), ![k] = call_task(Next1(c).t)]
       /\ fut' = [fut EXCEPT ![c] = k]
       /\ snap' = [snap EXCEPT ![k] = aslots[Next1(c).t]]
       /\ job' = [job EXCEPT ![k] = Next1(c).job]
       /\ local' = [local EXCEPT ![k] = task_init(Next1(c).job)]
  /\ UNCHANGED <<syncvars, aslots, count_, out, ready, started, shared>>
  /\ Return(c)

\* one turn of the task's loop over slots_: the next record, invoked if it is
\* a Call-role record
Walk(k) ==
  /\ prog[k] # <<>> /\ Next1(k).i = "walk"
  /\ LET list == aslots[Next1(k).t]
         pos == Next1(k).pos
     IN IF pos > Len(list)
          THEN /\ Pop(k)
               /\ UNCHANGED <<out, local>>
          ELSE IF ~list[pos].call
          THEN /\ prog' = [prog EXCEPT ![k] = <<[Next1(k) EXCEPT !.pos = pos + 1]>> \o Tail(@)]
               /\ UNCHANGED <<out, local>>
          ELSE IF list[pos].key[1] \in Throwers
          THEN \* the exception leaves the lambda: no further slot, no notify
               /\ prog' = [prog EXCEPT ![k] = <<[i |-> "set_exception"]>>]
               /\ out' = [out EXCEPT ![k] = Append(@, list[pos].key)]
               /\ local' = local
          ELSE /\ prog' = [prog EXCEPT ![k] = <<[Next1(k) EXCEPT !.pos = pos + 1]>> \o Tail(@)]
               /\ out' = [out EXCEPT ![k] = Append(@, list[pos].key)]
               /\ local' = [local EXCEPT ![k] = task_step(job[k], @, list[pos].key)]
  /\ UNCHANGED <<syncvars, aslots, count_, ready, fut, snap, behind, started, shared, job>>

\* the packaged_task makes the future ready once the lambda has returned
SetValue(k) ==
  /\ prog[k] # <<>> /\ Next1(k).i = "set_value"
  /\ ready' = [ready EXCEPT ![k] = TRUE]
  /\ shared' = [shared EXCEPT ![k] = task_return(job[k], local[k])]
  /\ Pop(k)
  /\ UNCHANGED <<syncvars, aslots, count_, out, fut, snap, behind, started, local, job>>

\* future::wait returns once the shared state is ready
FutureReady(c) ==
  /\ prog[c] # <<>> /\ Next1(c).i = "future_wait"
  /\ ready[fut[c]]
  /\ Pop(c)
  /\ UNCHANGED <<syncvars, aslots, count_, out, ready, fut, snap, started, local, shared, job>>
  /\ Return(c)

AsyncNext ==
  \/ \E c \in Callers, S \in AsyncSignals, obj \in AsyncReceivers \cup AsyncLambdas :
       AsyncConnect(c, S, obj)
  \/ \E c \in Callers, S \in AsyncSignals, obj \in AsyncReceivers \cup AsyncLambdas :
       AsyncDisconnect(c, S, obj)
  \/ \E c \in Callers, S \in AsyncSignals : AsyncEmit(c, S)
  \/ \E c \in Callers : FutureWait(c)
  \/ \E th \in Threads : SemWait(th)
  \/ \E th \in Threads : SemNotify(th)
  \/ \E c \in Callers : AddBody(c)
  \/ \E c \in Callers : RemoveBody(c)
  \/ \E c \in Callers : Launch(c)
  \/ \E k \in Tasks : Walk(k)
  \/ \E k \in Tasks : SetValue(k)
  \/ \E c \in Callers : FutureReady(c)

AsyncSpec == AsyncInit /\ [][AsyncNext]_vars

(***************************************************************************)
(* What an emission did: counting the invocations of a walk.               *)
(***************************************************************************)
\* the invocations of key k made by the walk of tracker S itself
Direct(l, S, k) == Cardinality({i \in DOMAIN l : l[i].by = S /\ l[i].key = k})

\* the invocations of key k made anywhere in the emission
Invoked(l, k) == Cardinality({i \in DOMAIN l : l[i].key = k})

\* the records of a registry that name tracker t, as partner or as receiver
Names(list, t) == {i \in DOMAIN list : list[i].tracker = t \/ list[i].key[1] = t}

(***************************************************************************)
(* C1.  After any sequence of connect and disconnect calls, emit invokes   *)
(* the slots connected at that moment and no other.  As stated (each       *)
(* connected slot exactly once) it fails for a slot connected twice.       *)
(***************************************************************************)
\* C1 as stated: emit invokes every connected slot exactly once and no slot
\* that is disconnected or was never connected.
C1_EachConnectedSlotOnce ==
  last.op = "emit" =>
    \A k \in Keys :
      Direct(log, last.t, k) = IF conn[last.t][k] > 0 THEN 1 ELSE 0

\* C1 amended: emit invokes every slot once per connect call made for it since
\* it was last disconnected, and invokes no slot that is disconnected or was
\* never connected.
C1_EmitInvokesConnections ==
  last.op = "emit" =>
    \A k \in Keys : Direct(log, last.t, k) = conn[last.t][k]

\* an emit that found one slot connected twice and another slot disconnected
C1_Witness ==
  /\ last.op = "emit"
  /\ \E k \in Keys : conn[last.t][k] = 2 /\ Direct(log, last.t, k) = 2
  /\ Len(slots_[last.t]) = 2

C10_DisconnectUnconnectedIsNoOp ==
  [][(last'.op = "disconnect" /\ conn[last'.t][bind(last'.x)] = 0) =>
       /\ slots_' = slots_
       /\ \A S \in Signals, arg \in Args :
            call(slots_', S, arg) = call(slots_, S, arg)]_vars

\* a tracked receiver connected to one signal was disconnected from another
C10_Witness ==
  /\ last.op = "disconnect" /\ last.x \in Receivers
  /\ conn[last.t][bind(last.x)] = 0
  /\ \E S \in Signals \ {last.t} : conn[S][bind(last.x)] > 0
  /\ slots_[last.x] # <<>>

(***************************************************************************)
(* C5.  A copy of a connected receiver is connected to the same signals.   *)
(***************************************************************************)
\* C5: copying receiver o into receiver c leaves o connected as it was and
\* connects c to every signal once per connection of o (so an emit invokes the
\* original and a fresh copy equally often, once each for one connection);
\* the two are independent: destroying either leaves the other connected.
C5_CopiedReceiverIsConnected ==
  [][(/\ last'.op \in {"copy_construct", "copy_assign"}
      /\ last'.t \in Receivers /\ last'.t # last'.x) =>
       LET c == last'.t
           o == last'.x
       IN \A S \in Signals, arg \in Args :
            LET before == call(slots_, S, arg)
                after == call(slots_', S, arg)
            IN /\ Direct(after, S, bind(o)) = Direct(before, S, bind(o))
               /\ Direct(after, S, bind(c)) =
                    Direct(before, S, bind(c)) + Direct(before, S, bind(o))
               /\ Direct(call(clear(slots_', c), S, arg), S, bind(o)) =
                    Direct(before, S, bind(o))
               /\ Direct(call(clear(slots_', o), S, arg), S, bind(c)) =
                    Direct(after, S, bind(c))]_vars

\* a receiver connected once to a signal was copied into an unconnected one,
\* and the signal now invokes each of them once
C5_Witness ==
  /\ last.op = "copy_assign" /\ last.t \in Receivers /\ last.t # last.x
  /\ \E S \in Signals :
       /\ conn[S][bind(last.x)] = 1 /\ conn[S][bind(last.t)] = 1
       /\ Direct(call(slots_, S, 1), S, bind(last.x)) = 1
       /\ Direct(call(slots_, S, 1), S, bind(last.t)) = 1

(***************************************************************************)
(* C6.  A copy of a signal has the slots of its source and is independent  *)
(* of it.                                                                  *)
(***************************************************************************)
\* C6: copying signal o into an empty signal c gives c the slots of o, each as
\* often as o has it, and leaves o's slots as they were; the emission of one
\* invokes nothing through the other, and a later connect or disconnect on one
\* leaves the registry and the emission of the other unchanged.
C6_CopiedSignalHasSameSlots ==
  [][(/\ last'.op \in {"copy_construct", "copy_assign"}
      /\ last'.t \in Signals /\ last'.t # last'.x
      /\ slots_[last'.t] = <<>>) =>
       LET c == last'.t
           o == last'.x
       IN \A arg \in Args :
            LET source == call(slots_, o, arg)
                of_o == call(slots_', o, arg)
                of_c == call(slots_', c, arg)
            IN /\ \A k \in Keys :
                    /\ Direct(of_c, c, k) = Direct(source, o, k)
                    /\ Direct(of_o, o, k) = Direct(source, o, k)
               /\ Len(of_c) = Len(source) /\ Len(of_o) = Len(source)
               /\ \A i \in DOMAIN of_c : of_c[i].by # o
               /\ \A i \in DOMAIN of_o : of_o[i].by # c
               /\ \A obj \in (SlotObjects \cap objects) \ {c, o} :
                    LET added == signal_add(slots_', c, bind(obj), obj)
                        removed == signal_remove(slots_', c, bind(obj), obj)
                        added_o == signal_add(slots_', o, bind(obj), obj)
                        removed_o == signal_remove(slots_', o, bind(obj), obj)
                    IN /\ added[o] = slots_'[o] /\ removed[o] = slots_'[o]
                       /\ added_o[c] = slots_'[c] /\ removed_o[c] = slots_'[c]
                       /\ call(removed, o, arg) = of_o
                       /\ call(removed_o, c, arg) = of_c]_vars

\* a signal with a tracked and an untracked slot was copied
C6_Witness ==
  /\ last.op = "copy_construct" /\ last.t \in Signals
  /\ \E r \in Receivers, f \in Lambdas :
       /\ conn[last.x][bind(r)] = 1 /\ conn[last.x][bind(f)] = 1
       /\ Direct(call(slots_, last.t, 1), last.t, bind(r)) = 1
       /\ Direct(call(slots_, last.t, 1), last.t, bind(f)) = 1
       /\ Len(call(slots_, last.x, 1)) = 2

(***************************************************************************)
(* C8.  Signal chaining.                                                   *)
(***************************************************************************)
\* C8: in an emission, every invocation gets the emitted argument and belongs
\* to a Call record of the tracker that made it, and a signal Y invokes slot k
\* once per connection of k to Y each time Y's walk runs (once for the emitted
\* signal, once per invocation of Y as a slot): with B a slot of A and s a slot
\* of B, A.emit(x) invokes s(x) exactly once, and B never invokes its Track
\* record for A.
C8_ChainedEmitForwards ==
  last.op = "emit" =>
    LET Walks(Y) == (IF Y = last.t THEN 1 ELSE 0) + Invoked(log, bind(Y))
    IN /\ \A i \in DOMAIN log :
            /\ log[i].arg = last.x
            /\ \E j \in DOMAIN slots_[log[i].by] :
                 /\ slots_[log[i].by][j].call
                 /\ slots_[log[i].by][j].key = log[i].key
       /\ \A Y \in Signals, k \in Keys :
            Direct(log, Y, k) = Walks(Y) * conn[Y][k]

\* A.emit(x) with B a slot of A and s a slot of B only: s was invoked once, by B
C8_Witness ==
  /\ last.op = "emit"
  /\ \E B \in Signals \ {last.t}, k \in Keys :
       /\ k[1] \notin Signals
       /\ conn[last.t][bind(B)] = 1 /\ conn[B][k] = 1 /\ conn[last.t][k] = 0
       /\ \E j \in DOMAIN slots_[B] :
            ~slots_[B][j].call /\ slots_[B][j].tracker = last.t
       /\ Invoked(log, k) = 1 /\ Direct(log, B, k) = 1
       /\ log[2].arg = last.x

(***************************************************************************)
(* C9.  A copy of a chained signal is chained as well.                     *)
(***************************************************************************)
\* C9: copy-constructing signal c from signal o makes c a slot of every signal
\* S that has o as a slot, as often as o, and gives c the slots of o: an emit
\* of S invokes every slot k through c as often as through o, so s, connected
\* to B only, is invoked twice by A.emit once B is copied.
C9_CopiedChainedSignal ==
  [][(last'.op = "copy_construct" /\ last'.t \in Signals) =>
       LET c == last'.t
           o == last'.x
       IN \A S \in Signals \ {c, o}, arg \in Args :
            LET before == call(slots_, S, arg)
                after == call(slots_', S, arg)
            IN /\ Invoked(after, bind(c)) = Invoked(before, bind(o))
               /\ Invoked(after, bind(o)) = Invoked(before, bind(o))
               /\ \A i \in DOMAIN after : after[i].arg = arg
               /\ \A k \in Keys :
                    k[1] \notin Signals =>
                      /\ Direct(after, c, k) = Direct(after, o, k)
                      /\ Direct(after, o, k) = Direct(before, o, k)
                      /\ Invoked(after, k) =
                           Invoked(before, k)
                           + Invoked(before, bind(o)) * Invoked(call(slots_, o, arg), k)]_vars

\* B, a slot of A with the tracked slot s, was copied: A.emit now invokes s twice
C9_Witness ==
  /\ last.op = "copy_construct" /\ last.t \in Signals
  /\ \E S \in Signals \ {last.t, last.x}, r \in Receivers :
       /\ conn[S][bind(last.x)] = 1 /\ conn[S][bind(last.t)] = 1
       /\ conn[S][bind(r)] = 0
       /\ conn[last.x][bind(r)] = 1 /\ conn[last.t][bind(r)] = 1
       /\ Invoked(call(slots_, S, 1), bind(r)) = 2
       /\ Direct(call(slots_, S, 1), last.t, bind(r)) = 1
       /\ Direct(call(slots_, S, 1), last.x, bind(r)) = 1

(***************************************************************************)
(* The claims about the async signal.                                      *)
(***************************************************************************)
\* thread c has made no step of the connect or disconnect it issued on S: it
\* has still to get past the semaphore of S
BeforeGate(c, S) ==
  prog[c] = IF behind[c].op = "connect"
              THEN async_signal_add(S, async_bind(behind[c].obj), behind[c].obj)
              ELSE async_signal_remove(S, async_bind(behind[c].obj), behind[c].obj)

\* C3: a connect or disconnect on an async signal that a thread issues while
\* an emission is in flight (emit() has returned, the task has not released
\* the semaphore) does not get past the semaphore before that emission has
\* invoked its last slot and released it; the slots the emission invoked
\* are the Call-role records of the registry at its launch, in order, so the
\* mutation is applied only after them.
C3_MutationWaitsForEmission ==
  \A c \in Callers : \A S \in AsyncSignals :
    (behind[c].op \in {"connect", "disconnect"} /\ ~BeforeGate(c, S)) =>
      \A k \in behind[c].tasks :
        /\ k \notin Walkers(prog, S)
        /\ ~Holds(prog, k, S)
        /\ out[k] = CallKeys(snap[k])

\* a connect of g issued while an emission of a non-empty registry without g
\* was in flight has added its record: g is connected, and the emission did
\* not invoke it
C3_Witness ==
  \E c \in Callers : \E k \in behind[c].tasks :
    /\ behind[c].op = "connect" /\ behind[c].obj = "g"
    /\ prog[c] = <<[i |-> "notify", t |-> "S"]>>
    /\ snap[k] # <<>>
    /\ \A n \in DOMAIN snap[k] : snap[k][n].key # async_bind("g")
    /\ \E n \in DOMAIN aslots["S"] : aslots["S"][n].key = async_bind("g")
    /\ out[k] = CallKeys(snap[k])

AggInit ==
  /\ AsyncIdle
  /\ AggIdle
  /\ LockIdle
  /\ objects = AggObjects
  /\ alive = [t \in Trackers |-> t \in AggObjects]
  /\ slots_ = [t \in Trackers |-> <<>>]
  /\ conn = [S \in Signals |-> NoConn]
  /\ last = Op("init", Null, Null)
  /\ log = <<>>

Structural(name, x, s, o) ==
  /\ slots_' = s
  /\ order' = o
  /\ last' = Op(name, IntSignal, x)
  /\ log' = <<>>
  /\ result' = Null
  /\ sink' = <<>>
  /\ UNCHANGED <<asyncvars, lockvars, objects, alive, conn>>

\* signal.connect(slot_one) / signal.connect(slot_two)
AggConnect(obj) ==
  /\ objects = AggObjects
  /\ Len(slots_[IntSignal]) < MaxSlots
  /\ Structural("connect", obj, signal_add(slots_, IntSignal, bind(obj), obj),
                Append(order, obj))

\* signal.disconnect(slot_one) / signal.disconnect(slot_two)
AggDisconnect(obj) ==
  /\ objects = AggObjects
  /\ Structural("disconnect", obj, signal_remove(slots_, IntSignal, bind(obj), obj),
                SelectSeq(order, LAMBDA o : o # obj))

\* other.connect(signal): the signal<int(int)> becomes a slot of the
\* signal<void(int)>
AggChain ==
  /\ objects = AggObjects
  /\ Len(slots_[IntSignal]) < MaxSlots /\ Len(slots_[VoidSignal]) < MaxSlots
  /\ Structural("chain", VoidSignal,
                signal_add(slots_, VoidSignal, bind(IntSignal), IntSignal), order)

\* other.disconnect(signal)
AggUnchain ==
  /\ objects = AggObjects
  /\ Structural("unchain", VoidSignal,
                signal_remove(slots_, VoidSignal, bind(IntSignal), IntSignal), order)

Emission(name, x, r, collected) ==
  /\ last' = Op(name, IntSignal, x)
  /\ log' = r.calls
  /\ result' = IF collected THEN Null ELSE r.ret
  /\ sink' = IF collected THEN r.ret ELSE <<>>
  /\ slots_' = walked(slots_, IntSignal)
  /\ UNCHANGED <<asyncvars, lockvars, objects, alive, conn, order>>

\* signal.emit(arg): the return values are dropped
AggEmit(arg) ==
  /\ objects = AggObjects
  /\ last' = Op("emit", IntSignal, [arg |-> arg])
  /\ log' = call(slots_, IntSignal, arg)
  /\ result' = Null
  /\ sink' = <<>>
  /\ slots_' = walked(slots_, IntSignal)
  /\ UNCHANGED <<asyncvars, lockvars, objects, alive, conn, order>>

\* signal.accumulate(init, arg)
Accumulate(init, arg) ==
  /\ objects = AggObjects
  /\ Emission("accumulate", [init |-> init, arg |-> arg],
              accumulate(slots_, IntSignal, init, arg), FALSE)

\* signal.accumulate_op(init, binary_op, arg)
AccumulateOp(init, op, arg) ==
  /\ objects = AggObjects
  /\ Emission("accumulate_op", [init |-> init, op |-> op, arg |-> arg],
              accumulate_op(slots_, IntSignal, init, op, arg), FALSE)

\* signal.aggregate<std::vector<int>>(arg)
Aggregate(arg) ==
  /\ objects = AggObjects
  /\ Emission("aggregate", [arg |-> arg], aggregate(slots_, IntSignal, arg), FALSE)

\* signal.collect(collector, arg)
Collect(arg) ==
  /\ objects = AggObjects
  /\ Emission("collect", [arg |-> arg], collect(slots_, IntSignal, arg), TRUE)

AggNext ==
  \/ \E obj \in IntLambdas : AggConnect(obj)
  \/ \E obj \in IntLambdas : AggDisconnect(obj)
  \/ AggChain
  \/ AggUnchain
  \/ \E arg \in IntArgs : AggEmit(arg)
  \/ \E init \in Inits, arg \in IntArgs : Accumulate(init, arg)
  \/ \E init \in Inits, op \in BinaryOps, arg \in IntArgs : AccumulateOp(init, op, arg)
  \/ \E arg \in IntArgs : Aggregate(arg)
  \/ \E arg \in IntArgs : Collect(arg)

AggSpec == AggInit /\ [][AggNext]_vars


(***************************************************************************)
(* The cpp_signal_async<>::signal<int(int)>: one thread connects,          *)
(* disconnects and emits; the emissions run in their tasks and deliver     *)
(* their values through the futures.                                       *)
(***************************************************************************)
AsyncIntSignal == "S"
AsyncAggObjects == {AsyncIntSignal} \cup IntLambdas
Main == <<"caller", 1>>             \* the thread that uses the signal
TestInit == CHOOSE init \in Inits : init # 0   \* init_value of the test
TestArg == CHOOSE arg \in IntArgs : arg > 1     \* value of the test

AsyncAggInit ==
  /\ AsyncIdle
  /\ AggIdle
  /\ LockIdle
  /\ objects = AsyncAggObjects
  /\ alive = [t \in Trackers |-> FALSE]
  /\ slots_ = [t \in Trackers |-> <<>>]
  /\ conn = [S \in Signals |-> NoConn]
  /\ last = Op("init", Null, Null)
  /\ log = <<>>

AsyncAggConnect(obj) ==
  /\ objects = AsyncAggObjects
  /\ AsyncConnect(Main, AsyncIntSignal, obj)

AsyncAggDisconnect(obj) ==
  /\ objects = AsyncAggObjects
  /\ AsyncDisconnect(Main, AsyncIntSignal, obj)

\* future = signal.emit(arg) / accumulate(init, arg) / accumulate_op(init,
\* binary_op, arg) / aggregate<Container>(arg) / collect(collector, arg)
AsyncAggEmission(j) ==
  /\ objects = AsyncAggObjects
  /\ EmitsLeft
  /\ Begin(Main, j.kind, Null, async_emission(AsyncIntSignal, j), AsyncIntSignal)

AsyncAggNext ==
  \/ \E obj \in IntLambdas : AsyncAggConnect(obj)
  \/ \E obj \in IntLambdas : AsyncAggDisconnect(obj)
  \/ AsyncAggEmission(Job("call", Null, Null, TestArg))
  \/ AsyncAggEmission(Job("accumulate", TestInit, Null, TestArg))
  \/ AsyncAggEmission(Job("accumulate_op", TestInit, "minus", TestArg))
  \/ AsyncAggEmission(Job("aggregate", Null, Null, TestArg))
  \/ AsyncAggEmission(Job("collect", Null, Null, TestArg))
  \/ \E c \in Callers : FutureWait(c)
  \/ \E th \in Threads : SemWait(th)
  \/ \E th \in Threads : SemNotify(th)
  \/ \E c \in Callers : AddBody(c)
  \/ \E c \in Callers : RemoveBody(c)
  \/ \E c \in Callers : Launch(c)
  \/ \E k \in Tasks : Walk(k)
  \/ \E k \in Tasks : SetValue(k)
  \/ \E c \in Callers : FutureReady(c)

\* the signal<int(int)> of either kind: a program uses the synchronous or the
\* asynchronous one
EmissionSpec == (AggInit \/ AsyncAggInit) /\ [][AggNext \/ AsyncAggNext]_vars

(***************************************************************************)
(* The claims about the emissions that use the return values.              *)
(***************************************************************************)
\* the accumulating kinds of emission
Accumulations == {"accumulate", "accumulate_op"}

\* r1 .. rn: the return values of the Call-role records of a registry for an
\* argument, in the order of the registry
Returned(list, arg) ==
  [n \in DOMAIN CallKeys(list) |-> slot_call(CallKeys(list)[n], arg)]

\* every Call-role record of the signal invoked once, in the order of the
\* registry
InvokedOnceEach(calls, list, self, arg) ==
  calls = [n \in DOMAIN CallKeys(list) |-> invocation(self, CallKeys(list)[n], arg)]

RECURSIVE SumTo(_, _)
SumTo(rs, n) == IF n = 0 THEN 0 ELSE SumTo(rs, n - 1) + rs[n]

RECURSIVE FoldTo(_, _, _, _)
FoldTo(op, init, rs, n) ==
  IF n = 0 THEN init ELSE binary_op(op, FoldTo(op, init, rs, n - 1), rs[n])

\* C11: accumulate(init, arg) returns init + r1 + ... + rn and
\* accumulate_op(init, op, arg) returns op(...op(op(init, r1), r2)..., rn),
\* r1..rn being the return values of the Call-role records in registry
\* order, each invoked exactly once; with slot_one (returning v) and slot_two
\* (returning 2v) connected once each, accumulate(init, v) is init + v + 2v.
\* The future of an async accumulate or accumulate_op holds the same fold
\* over the registry the emission was launched on.
C11_AccumulateFoldsInOrder ==
  LET list == slots_[IntSignal]
      rs == Returned(list, last.x.arg)
  IN /\ \A k \in Tasks :
          (ready[k] /\ job[k].kind \in Accumulations) =>
            LET as == Returned(snap[k], job[k].arg)
            IN /\ out[k] = CallKeys(snap[k])
               /\ job[k].kind = "accumulate" =>
                    shared[k] = job[k].init + SumTo(as, Len(as))
               /\ job[k].kind = "accumulate_op" =>
                    shared[k] = FoldTo(job[k].op, job[k].init, as, Len(as))
     /\ last.op = "accumulate" =>
          /\ result = last.x.init + SumTo(rs, Len(rs))
          /\ InvokedOnceEach(log, list, IntSignal, last.x.arg)
          /\ (Len(order) = 2 /\ order[1] # order[2]) =>
               result = last.x.init + last.x.arg + 2 * last.x.arg
     /\ last.op = "accumulate_op" =>
          /\ result = FoldTo(last.x.op, last.x.init, rs, Len(rs))
          /\ InvokedOnceEach(log, list, IntSignal, last.x.arg)

\* accumulate_op(3, shift, 5) with slot_one connected before slot_two:
\* shift(shift(3, 10), 5)
C11_Witness ==
  /\ last.op = "accumulate_op" /\ last.x.op = "shift"
  /\ last.x.init = 3 /\ last.x.arg = 5
  /\ order = <<"slot_one", "slot_two">>
  /\ result = 405
  /\ Len(log) = 2


\* C12: aggregate<Container>(arg) returns a container built from empty with
\* one element per Call-role record of the registry, in registry order, which
\* is most recently connected first: with slot_one connected before slot_two
\* the result is <<slot_two(arg), slot_one(arg)>>.
C12_AggregateMostRecentFirst ==
  last.op = "aggregate" =>
    LET list == slots_[IntSignal]
        n == Len(order)
    IN /\ result = Returned(list, last.x.arg)
       /\ Len(result) = n
       /\ \A i \in 1 .. n : result[i] = slot_call(bind(order[n - i + 1]), last.x.arg)
       /\ InvokedOnceEach(log, list, IntSignal, last.x.arg)
       /\ order = <<"slot_one", "slot_two">> =>
            result = <<slot_call(bind("slot_two"), last.x.arg),
                       slot_call(bind("slot_one"), last.x.arg)>>

\* aggregate(5) with slot_one connected before slot_two returns <<10, 5>>
C12_Witness ==
  /\ last.op = "aggregate" /\ last.x.arg = 5
  /\ order = <<"slot_one", "slot_two">>
  /\ result = <<10, 5>>


\* C13: collect(collector, arg) invokes every Call-role record of the
\* registry exactly once and calls the collector once per invocation with
\* the value that invocation returned; the collector is passed nothing else.
C13_CollectPassesEachResult ==
  last.op = "collect" =>
    LET list == slots_[IntSignal]
    IN /\ sink = Returned(list, last.x.arg)
       /\ InvokedOnceEach(log, list, IntSignal, last.x.arg)
       /\ result = Null

\* collect(collector, 5) on a registry that holds a Track-role record and
\* slot_two: the collector is called once, with 10
C13_Witness ==
  /\ last.op = "collect" /\ last.x.arg = 5
  /\ Len(slots_[IntSignal]) = 2
  /\ \E n \in DOMAIN slots_[IntSignal] : ~slots_[IntSignal][n].call
  /\ sink = <<10>>
  /\ Len(log) = 1


(***************************************************************************)
(* C14.  An emission on a signal that has no slot connected.               *)
(***************************************************************************)
\* C14: an emission on a signal with no Call-role record invokes nothing;
\* accumulate and accumulate_op return the initial value, aggregate returns
\* an empty container, collect calls the collector with nothing.  On the
\* async signal the future delivers these values, the task has released the
\* semaphore, and the semaphore is back at its initial count once no thread
\* is in an operation.
C14_EmptyEmission ==
  /\ (last.op \in {"emit", "accumulate", "accumulate_op", "aggregate", "collect"}
        /\ CallKeys(slots_[IntSignal]) = <<>>) =>
       /\ log = <<>>
       /\ sink = <<>>
       /\ last.op \in Accumulations => result = last.x.init
       /\ last.op = "aggregate" => result = <<>>
  /\ \A k \in Tasks :
       (ready[k] /\ CallKeys(snap[k]) = <<>>) =>
         /\ out[k] = <<>>
         /\ ~Holds(prog, k, AsyncIntSignal)
         /\ job[k].kind \in Accumulations => shared[k] = job[k].init
         /\ job[k].kind = "aggregate" => shared[k] = <<>>
         /\ job[k].kind = "collect" => local[k] = <<>>
  /\ (\A th \in Threads : prog[th] = <<>>) => count_[AsyncIntSignal] = 0

\* the future of an async accumulate on a signal without slots is ready and
\* holds the initial value; a slot has been connected since, and the
\* semaphore is free again
C14_Witness ==
  \E k \in Tasks :
    /\ ready[k] /\ snap[k] = <<>>
    /\ job[k].kind = "accumulate" /\ shared[k] = TestInit
    /\ aslots[AsyncIntSignal] # <<>>
    /\ \A th \in Threads : prog[th] = <<>>
    /\ count_[AsyncIntSignal] = 0


(***************************************************************************)
(* The claims about the future of an async emission.                       *)
(***************************************************************************)
\* C15: emit() on an async signal returns with the step that launches the
\* task, before the task has invoked a slot or made the future ready; a
\* wait on the future returns only when the task has ended its walk, having
\* invoked every Call-role record of the registry it was launched on
\* exactly once, in order.
C15_EmitReturnsWaitCompletes ==
  [][\A c \in Callers :
       /\ (prog[c] # <<>> /\ Head(prog[c]).i = "async" /\ prog'[c] # prog[c]) =>
            /\ prog'[c] = <<>>
            /\ fut'[c] \in Walkers(prog', Head(prog[c]).t)
            /\ out'[fut'[c]] = <<>> /\ ~ready'[fut'[c]]
       /\ (prog[c] = <<[i |-> "future_wait"]>> /\ prog'[c] = <<>>) =>
            /\ ready[fut[c]]
            /\ \A S \in AsyncSignals : fut[c] \notin Walkers(prog, S)
            /\ out[fut[c]] = CallKeys(snap[fut[c]])]_vars

\* a thread waits on the future of its emission of a signal with two slots:
\* both have been invoked, once each, and the wait can return
C15_Witness ==
  \E c \in Callers :
    /\ prog[c] = <<[i |-> "future_wait"]>>
    /\ ready[fut[c]]
    /\ Len(CallKeys(snap[fut[c]])) = 2
    /\ snap[fut[c]][1].key # snap[fut[c]][2].key
    /\ out[fut[c]] = CallKeys(snap[fut[c]])

\* The task of an emission runs in a thread of its own (std::thread,
\* detached): the scheduler lets it make its next step as long as it has
\* one.  Nothing is assumed of the threads of the callers.
TaskStep(k) == Walk(k) \/ SemNotify(k) \/ SetValue(k)

\* the threads of the program connect callables, emit, and wait on the
\* future of an emission or drop it
DiscardNext ==
  \/ \E c \in Callers, S \in AsyncSignals, obj \in AsyncLambdas : AsyncConnect(c, S, obj)
  \/ \E c \in Callers, S \in AsyncSignals : AsyncEmit(c, S)
  \/ \E c \in Callers : FutureWait(c)
  \/ \E th \in Threads : SemWait(th)
  \/ \E th \in Threads : SemNotify(th)
  \/ \E c \in Callers : AddBody(c)
  \/ \E c \in Callers : Launch(c)
  \/ \E k \in Tasks : Walk(k)
  \/ \E k \in Tasks : SetValue(k)
  \/ \E c \in Callers : FutureReady(c)

AsyncFairSpec ==
  AsyncInit /\ [][DiscardNext]_vars /\ \A k \in Tasks : WF_vars(TaskStep(k))

\* C16: the task of every launched emission ends its walk, having invoked
\* every Call-role record of the registry it was launched on, and releases
\* the semaphore, whatever the callers do with the future: the semaphore
\* is free again for a later operation on the signal.
C16_EmissionCompletes ==
  \A k \in Tasks : \A S \in AsyncSignals :
    /\ (k \in Walkers(prog, S)) ~>
         (/\ ~Holds(prog, k, S) /\ k \notin Walkers(prog, S)
          /\ out[k] = CallKeys(snap[k])
          /\ wait_ready(count_[S]))
    /\ (prog[k] # <<>>) ~> (prog[k] = <<>> /\ ready[k])

\* the task of an emission whose future no thread holds any more has walked
\* a registry of two slots and released the semaphore
C16_Witness ==
  \E k \in Tasks :
    /\ \A c \in Callers : fut[c] # k /\ prog[c] = <<>>
    /\ Len(CallKeys(snap[k])) = 2
    /\ out[k] = CallKeys(snap[k])
    /\ prog[k] = <<>>
    /\ count_["S"] = 0


(***************************************************************************)
(* The locking policies.  slot_tracker derives from its locking policy and *)
(* every one of add, remove, clear, empty, copy and the emissions holds a *)
(* std::lock_guard<locking_policy> on itself for its whole body.  One   *)
(* thread runs the program; what a call locks and unlocks, in order,       *)
(* follows from the calls its body makes.                                  *)
(***************************************************************************)
Policies ==
  {"cpp_signal_no_locking", "cpp_signal_global_locking",
   "cpp_signal_local_locking", "cpp_signal_recursive_local_locking"}

\* the mutex that lock() of tracker t takes: the function-local static of
\* cpp_signal_global_locking, or the mutex that is the base of t
mutex(policy, t) == IF policy = "cpp_signal_global_locking" THEN "static" ELSE t

\* a body that runs without the lock
no_guard(t, body) == body

\* std::lock_guard<locking_policy> on the tracker around a body
lock_guard(t, body) == <<[e |-> "lock", t |-> t]>> \o body \o <<[e |-> "unlock", t |-> t]>>

add_locks(t) == lock_guard(t, <<>>)

remove_locks(t) == lock_guard(t, <<>>)

\* signal::add: add_to_call on the signal, then add_to_track on the tracker
signal_add_locks(self, obj) ==
  add_locks(self) \o (IF obj \in Trackers THEN add_locks(obj) ELSE <<>>)

\* signal::remove: remove on the signal, then remove on the tracker
signal_remove_locks(self, obj) ==
  remove_locks(self) \o (IF obj \in Trackers THEN remove_locks(obj) ELSE <<>>)

\* the loop of clear: slot.tracker->remove for every record of a partner
RECURSIVE clear_loop_locks(_, _)
clear_loop_locks(list, self) ==
  IF list = <<>> THEN <<>>
  ELSE (IF Head(list).tracker # self THEN remove_locks(Head(list).tracker) ELSE <<>>)
       \o clear_loop_locks(Tail(list), self)

clear_locks(s, self) == lock_guard(self, clear_loop_locks(s[self], self))

\* the loop of copy: add on this for every record of other, and add_to_track
\* or add_to_call on the partner of a tracked one
RECURSIVE copy_loop_locks(_, _, _)
copy_loop_locks(list, self, other) ==
  IF list = <<>> THEN <<>>
  ELSE add_locks(self)
       \o (IF Head(list).tracker # other THEN add_locks(Head(list).tracker) ELSE <<>>)
       \o copy_loop_locks(Tail(list), self, other)

copy_locks(s, self, other) == lock_guard(self, copy_loop_locks(s[other], self, other))

\* the loop of call: a slot that is the emit of a signal runs call of that
\* signal inside the lock of this one
RECURSIVE call_loop_locks(_, _)
call_loop_locks(s, list) ==
  IF list = <<>> THEN <<>>
  ELSE LET slot == Head(list)
       IN (IF slot.call /\ slot.key[1] \in Signals
             THEN lock_guard(slot.key[1], call_loop_locks(s, s[slot.key[1]]))
             ELSE <<>>)
          \o call_loop_locks(s, Tail(list))

call_locks(s, self) == lock_guard(self, call_loop_locks(s, s[self]))

\* the thread locks a mutex it already owns
RECURSIVE owner_locks(_, _, _)
owner_locks(policy, events, held) ==
  IF events = <<>> THEN FALSE
  ELSE LET m == mutex(policy, Head(events).t)
       IN IF Head(events).e = "lock"
            THEN m \in held \/ owner_locks(policy, Tail(events), held \cup {m})
            ELSE owner_locks(policy, Tail(events), held \ {m})

\* std::mutex::lock by the thread that owns the mutex: the behaviour is
\* undefined.  lock() of cpp_signal_no_locking does nothing and
\* std::recursive_mutex lets its owner lock again.
Undefined(policy, events) ==
  /\ policy \in {"cpp_signal_global_locking", "cpp_signal_local_locking"}
  /\ owner_locks(policy, events, {})

\* what a build makes of the second lock: the thread blocks for ever, or
\* lock() throws std::system_error (out of a noexcept function:
\* std::terminate), or the call goes on as if nothing had happened
Stops == {"deadlock", "system_error"}

LockObjects == {"A", "B", "r"}

LockInit ==
  /\ AsyncIdle
  /\ AggIdle
  /\ locking_policy \in Policies
  /\ stopped = Null
  /\ owner = NoOwner
  /\ objects = LockObjects
  /\ alive = [t \in Trackers |-> FALSE]
  /\ slots_ = [t \in Trackers |-> <<>>]
  /\ conn = [S \in Signals |-> NoConn]
  /\ last = Op("init", Null, Null)
  /\ log = <<>>

\* the call stops at the second lock of an owned mutex, before the body
\* under that lock has changed anything
Stop(name, t, x) ==
  /\ \E how \in Stops : stopped' = how
  /\ last' = Op(name, t, x)
  /\ UNCHANGED <<locking_policy, owner, objects, alive, slots_, conn, log, asyncvars, aggvars>>

LockConstruct(t) ==
  /\ stopped = Null
  /\ Construct(t)

LockCopyConstruct(t, other) ==
  /\ stopped = Null
  /\ \/ CopyConstruct(t, other)
     \/ /\ ENABLED CopyConstruct(t, other)
        /\ Undefined(locking_policy, copy_locks(slots_, t, other))
        /\ Stop("copy_construct", t, other)

LockCopyAssign(t, other) ==
  /\ stopped = Null
  /\ \/ CopyAssign(t, other)
     \/ /\ ENABLED CopyAssign(t, other)
        /\ Undefined(locking_policy, copy_locks(slots_, t, other))
        /\ Stop("copy_assign", t, other)

LockDestroy(t) ==
  /\ stopped = Null
  /\ \/ Destroy(t)
     \/ /\ ENABLED Destroy(t)
        /\ Undefined(locking_policy, clear_locks(slots_, t))
        /\ Stop("destroy", t, Len(slots_[t]))

LockConnect(S, obj) ==
  /\ stopped = Null
  /\ \/ Connect(S, obj)
     \/ /\ ENABLED Connect(S, obj)
        /\ Undefined(locking_policy, signal_add_locks(S, obj))
        /\ Stop("connect", S, obj)

LockDisconnect(S, obj) ==
  /\ stopped = Null
  /\ \/ Disconnect(S, obj)
     \/ /\ ENABLED Disconnect(S, obj)
        /\ Undefined(locking_policy, signal_remove_locks(S, obj))
        /\ Stop("disconnect", S, obj)

LockEmit(S, arg) ==
  /\ stopped = Null
  /\ \/ Emit(S, arg)
     \/ /\ ENABLED Emit(S, arg)
        /\ Undefined(locking_policy, call_locks(slots_, S))
        /\ Stop("emit", S, arg)

LockNext ==
  \/ \E t \in Trackers : LockConstruct(t)
  \/ \E t, other \in Trackers : LockCopyConstruct(t, other)
  \/ \E t, other \in Trackers : LockCopyAssign(t, other)
  \/ \E t \in Trackers : LockDestroy(t)
  \/ \E S \in Signals, obj \in SlotObjects : LockConnect(S, obj)
  \/ \E S \in Signals, obj \in SlotObjects : LockDisconnect(S, obj)
  \/ \E S \in Signals, arg \in Args : LockEmit(S, arg)

LockSpec == LockInit /\ [][LockNext]_vars

\* C17: under every locking policy every connect, disconnect, copy,
\* destroy and emit of a single-threaded program returns (and so leaves the
\* registries and makes the invocations it does without locking).
C17_PoliciesInterchangeable == stopped = Null


(***************************************************************************)
(* The destruction of async trackers by concurrent threads.                *)
(***************************************************************************)
\* the loop of async clear: slot.tracker->remove(slot.key, this) for every
\* record of a partner
RECURSIVE async_clear_loop(_, _)
async_clear_loop(list, self) ==
  IF list = <<>> THEN <<>>
  ELSE (IF Head(list).tracker # self
          THEN async_remove(Head(list).tracker, Head(list).key, self)
          ELSE <<>>)
       \o async_clear_loop(Tail(list), self)

\* async slot_tracker::clear: the scoped_semaphore of the tracker around
\* the loop and slots_.clear()
async_clear(t) == scoped(t, <<[i |-> "clear_loop", t |-> t], [i |-> "clear", t |-> t]>>)

\* a thread is in the destructor of tracker t
Destroying(t) == \E c \in Callers : behind[c].op = "destroy" /\ behind[c].obj = t

\* the program may use tracker t: it is constructed and no thread destroys it
Usable(t) == alive[t] /\ ~Destroying(t)

\* the async signal S and the receiver R constructed, nothing connected
DestroyInit ==
  /\ AsyncIdle
  /\ AggIdle
  /\ LockIdle
  /\ objects = {}
  /\ alive = [t \in AsyncTrackers |-> TRUE]
  /\ slots_ = [t \in Trackers |-> <<>>]
  /\ conn = [S \in Signals |-> NoConn]
  /\ last = Op("init", Null, Null)
  /\ log = <<>>

DestroyConnect(c, S, obj) ==
  /\ Usable(S)
  /\ obj \in AsyncTrackers => Usable(obj)
  /\ AsyncConnect(c, S, obj)

DestroyDisconnect(c, S, obj) ==
  /\ Usable(S)
  /\ obj \in AsyncTrackers => Usable(obj)
  /\ AsyncDisconnect(c, S, obj)

\* ~slot_tracker(): clear().  The program destroys no tracker while a thread
\* is in connect or disconnect; two threads may destroy two trackers at once.
AsyncDestroy(c, t) ==
  /\ Usable(t)
  /\ \A d \in Callers : behind[d].op \in {"none", "destroy"}
  /\ Begin(c, "destroy", t, async_clear(t), t)

\* the loop of clear, entered with the semaphore of the tracker taken
ClearLoop(th) ==
  /\ prog[th] # <<>> /\ Next1(th).i = "clear_loop"
  /\ prog' = [prog EXCEPT ![th] = async_clear_loop(aslots[Next1(th).t], Next1(th).t) \o Tail(@)]
  /\ UNCHANGED <<syncvars, aslots, count_, out, ready, fut, snap, behind, started, local, shared, job>>

\* slots_.clear() at the end of clear: the tracker is gone once its
\* destructor returns
ClearBody(th) ==
  /\ prog[th] # <<>> /\ Next1(th).i = "clear"
  /\ aslots' = [aslots EXCEPT ![Next1(th).t] = <<>>]
  /\ alive' = [alive EXCEPT ![Next1(th).t] = FALSE]
  /\ Pop(th)
  /\ UNCHANGED <<objects, slots_, conn, last, log, aggvars, lockvars>>
  /\ UNCHANGED <<count_, out, ready, fut, snap, behind, started, local, shared, job>>

DestroyNext ==
  \/ \E c \in Callers, S \in AsyncSignals, obj \in AsyncReceivers \cup AsyncLambdas :
       DestroyConnect(c, S, obj)
  \/ \E c \in Callers, S \in AsyncSignals, obj \in AsyncReceivers \cup AsyncLambdas :
       DestroyDisconnect(c, S, obj)
  \/ \E c \in Callers, t \in AsyncTrackers : AsyncDestroy(c, t)
  \/ \E c \in Callers : SemWait(c)
  \/ \E c \in Callers : SemNotify(c)
  \/ \E c \in Callers : AddBody(c)
  \/ \E c \in Callers : RemoveBody(c)
  \/ \E c \in Callers : ClearLoop(c)
  \/ \E c \in Callers : ClearBody(c)

DestroySpec == DestroyInit /\ [][DestroyNext]_vars

\* the thread waits for a semaphore that is taken
Blocked(th) ==
  /\ prog[th] # <<>>
  /\ Head(prog[th]).i = "wait"
  /\ ~wait_ready(count_[Head(prog[th]).t])

\* C18: clear() always terminates, also when the partner runs its own
\* clear() at the same time: while a thread is in the destructor of a
\* tracker, some thread that is in an operation can make its next step.
C18_ClearTerminates ==
  (\E c \in Callers : behind[c].op = "destroy" /\ prog[c] # <<>>) =>
    \E th \in Callers : prog[th] # <<>> /\ ~Blocked(th)


(***************************************************************************)
(* A slot that throws in an async emission.  The lambda of the emission    *)
(* runs inside a std::packaged_task: an exception that leaves it is stored *)
(* in the shared state of the future, and the future is ready.             *)
(***************************************************************************)
Exception == "exception"

\* std::future::get that hands out a stored exception as if it were a value
get_result_swallowed(state) == "returned"

\* std::future::get: rethrows the stored exception, or returns the value
get_result(state) == IF state = Exception THEN "raised" ELSE "returned"

\* std::future::wait: blocks until the shared state is ready, returns nothing
\* and throws nothing
wait_result(state) == "returned"

\* the packaged_task stores the exception that left the lambda and makes
\* the future ready; the thread of the task ends
SetException(k) ==
  /\ prog[k] # <<>> /\ Next1(k).i = "set_exception"
  /\ ready' = [ready EXCEPT ![k] = TRUE]
  /\ shared' = [shared EXCEPT ![k] = Exception]
  /\ Pop(k)
  /\ UNCHANGED <<syncvars, aslots, count_, out, fut, snap, behind, started, local, job>>

\* the async signal constructed, nothing connected, no thread has called
\* anything on a future
ThrowInit ==
  /\ AsyncIdle
  /\ AggIdle
  /\ LockIdle
  /\ objects = {}
  /\ alive = [t \in Trackers |-> FALSE]
  /\ slots_ = [t \in Trackers |-> <<>>]
  /\ conn = [S \in Signals |-> NoConn]
  /\ last = Op("init", NoTask, Null)
  /\ log = <<>>

\* signal.connect of a callable that throws
ThrowConnect(c, S, obj) ==
  /\ obj \in Throwers
  /\ AsyncConnect(c, S, obj)

\* future.get()
FutureGet(c) ==
  /\ prog[c] = <<>> /\ fut[c] # NoTask
  /\ started < MaxOps
  /\ started' = started + 1
  /\ prog' = [prog EXCEPT ![c] = <<[i |-> "future_get"]>>]
  /\ UNCHANGED <<syncvars, aslots, count_, out, ready, fut, snap, behind, local, shared, job>>

\* future::get returns or throws once the shared state is ready; the
\* future is no longer valid
GetReady(c) ==
  /\ prog[c] # <<>> /\ Next1(c).i = "future_get"
  /\ ready[fut[c]]
  /\ last' = Op("future_get", c, get_result(shared[fut[c]]))
  /\ fut' = [fut EXCEPT ![c] = NoTask]
  /\ Pop(c)
  /\ UNCHANGED <<objects, alive, slots_, conn, log, aggvars, lockvars>>
  /\ UNCHANGED <<aslots, count_, out, ready, snap, behind, started, local, shared, job>>

\* future::wait returns once the shared state is ready
WaitReady(c) ==
  /\ prog[c] # <<>> /\ Next1(c).i = "future_wait"
  /\ ready[fut[c]]
  /\ last' = Op("future_wait", c, wait_result(shared[fut[c]]))
  /\ Pop(c)
  /\ UNCHANGED <<objects, alive, slots_, conn, log, aggvars, lockvars>>
  /\ UNCHANGED <<aslots, count_, out, ready, fut, snap, behind, started, local, shared, job>>

ThrowNext ==
  \/ \E c \in Callers, S \in AsyncSignals, obj \in AsyncLambdas : AsyncConnect(c, S, obj)
  \/ \E c \in Callers, S \in AsyncSignals, obj \in Throwers : ThrowConnect(c, S, obj)
  \/ \E c \in Callers, S \in AsyncSignals : AsyncEmit(c, S)
  \/ \E c \in Callers : FutureWait(c)
  \/ \E c \in Callers : FutureGet(c)
  \/ \E th \in Threads : SemWait(th)
  \/ \E th \in Threads : SemNotify(th)
  \/ \E c \in Callers : AddBody(c)
  \/ \E c \in Callers : Launch(c)
  \/ \E k \in Tasks : Walk(k)
  \/ \E k \in Tasks : SetValue(k)
  \/ \E k \in Tasks : SetException(k)
  \/ \E c \in Callers : WaitReady(c)
  \/ \E c \in Callers : GetReady(c)

ThrowSpec == ThrowInit /\ [][ThrowNext]_vars

\* the call of thread c on its future returns or throws in this step
Delivers(c, call_) == prog[c] = <<[i |-> call_]>> /\ prog'[c] = <<>>

\* the step raises an exception in thread c
Raises(c) ==
  /\ last' # last
  /\ last'.op \in {"future_get", "future_wait"}
  /\ last'.t = c /\ last'.x = "raised"

\* C19 as stated: the exception of a slot is raised in the waiter at the
\* moment the future is waited on or read, and nowhere else.
C19_RaisedOnWaitOrRead ==
  [][\A c \in Callers :
       /\ Raises(c) => Delivers(c, "future_get") \/ Delivers(c, "future_wait")
       /\ ((Delivers(c, "future_get") \/ Delivers(c, "future_wait"))
             /\ shared[fut[c]] = Exception) => Raises(c)]_vars

\* C19: the exception of a slot is raised by no step of emit() and by no
\* step of the task, which stores it in the future and ends; it is raised
\* in the thread that reads the future with get(), in the step in which get
\* returns, and wait() on that future returns without raising anything.
C19_RaisedOnGet ==
  [][/\ \A c \in Callers :
          /\ Raises(c) => Delivers(c, "future_get") /\ shared[fut[c]] = Exception
          /\ (Delivers(c, "future_get") /\ shared[fut[c]] = Exception) => Raises(c)
          /\ Delivers(c, "future_wait") => last' = Op("future_wait", c, "returned")
     /\ \A k \in Tasks :
          (prog[k] # <<>> /\ Head(prog[k]).i = "walk" /\ prog'[k] # prog[k]
             /\ Head(prog[k]).pos <= Len(aslots[Head(prog[k]).t])
             /\ aslots[Head(prog[k]).t][Head(prog[k]).pos].call
             /\ aslots[Head(prog[k]).t][Head(prog[k]).pos].key[1] \in Throwers) =>
            /\ last' = last
            /\ prog'[k] = <<[i |-> "set_exception"]>>]_vars

\* a thread has read with get() the future of an emission in which a slot
\* threw: the exception was raised in it
C19_Witness ==
  /\ last.op = "future_get" /\ last.x = "raised"
  /\ \E k \in Tasks : shared[k] = Exception /\ ready[k] /\ prog[k] = <<>>


(***************************************************************************)
(* The two sides of a tracked connection.                                  *)
(***************************************************************************)
\* the records of a registry with the given role, key and partner
Records(list, to_call, key, tracker) ==
  {i \in DOMAIN list :
     list[i].call = to_call /\ list[i].key = key /\ list[i].tracker = tracker}

\* C20 as stated: for every Call-role record of tracker A whose partner is
\* another tracker O there is exactly one Track-role record in O with
\* partner A and the same key.
C20_ExactlyOneTrackRecord ==
  \A A \in Trackers : \A i \in DOMAIN slots_[A] :
    LET R == slots_[A][i]
    IN (R.call /\ R.tracker # A) =>
         Cardinality(Records(slots_[R.tracker], FALSE, R.key, A)) = 1

\* C20: after every connect, disconnect, copy and destroy, for every
\* Call-role record of tracker A whose partner is another tracker O, the
\* registry of O has as many Track-role records with partner A and the
\* same key as A has Call-role records with that key and partner O: one
\* for a slot connected once.
C20_TrackRecordPerCallRecord ==
  \A A \in Trackers : \A i \in DOMAIN slots_[A] :
    LET R == slots_[A][i]
    IN (R.call /\ R.tracker # A) =>
         Cardinality(Records(slots_[R.tracker], FALSE, R.key, A))
           = Cardinality(Records(slots_[A], TRUE, R.key, R.tracker))

\* a copy has left a signal with a Call-role record for a receiver, and
\* another signal holds two Call-role records of one slot of that receiver
C20_Witness ==
  /\ last.op \in {"copy_construct", "copy_assign"}
  /\ \E i \in DOMAIN slots_[last.t] :
       slots_[last.t][i].call /\ slots_[last.t][i].tracker \in Receivers
  /\ \E A \in Signals : \E i \in DOMAIN slots_[A] :
       /\ slots_[A][i].call /\ slots_[A][i].tracker \in Receivers
       /\ Cardinality(Records(slots_[A], TRUE, slots_[A][i].key, slots_[A][i].tracker)) = 2


(***************************************************************************)
(* Disconnecting.                                                          *)
(***************************************************************************)
\* the registry without the records of the given key and partner
Without(list, key, tracker) ==
  SelectSeq(list, LAMBDA slot : ~(slot.key = key /\ slot.tracker = tracker))

\* C21: disconnecting a tracked slot removes the Call-role record from the
\* signal and the mirrored Track-role record from the receiver, and leaves
\* every other record and tracker as it was; disconnecting an untracked
\* slot (its partner is the signal itself) removes the record of the signal
\* and touches no other tracker.
C21_DisconnectRemovesBothSides ==
  [][last'.op = "disconnect" =>
       LET S == last'.t
           obj == last'.x
           key == bind(obj)
       IN IF obj \in Trackers
            THEN /\ slots_'[S] = Without(slots_[S], key, obj)
                 /\ slots_'[obj] = Without(slots_[obj], key, S)
                 /\ Records(slots_'[S], TRUE, key, obj) = {}
                 /\ Records(slots_'[obj], FALSE, key, S) = {}
                 /\ \A t \in Trackers \ {S, obj} : slots_'[t] = slots_[t]
            ELSE /\ slots_'[S] = Without(slots_[S], key, S)
                 /\ Records(slots_'[S], TRUE, key, S) = {}
                 /\ \A t \in Trackers \ {S} : slots_'[t] = slots_[t]]_vars

\* a tracked receiver connected to two signals has been disconnected from
\* one of them: it keeps the Track-role record of the other
C21_Witness ==
  /\ last.op = "disconnect" /\ last.x \in Receivers
  /\ Records(slots_[last.t], TRUE, bind(last.x), last.x) = {}
  /\ \E S \in Signals \ {last.t} :
       /\ Records(slots_[S], TRUE, bind(last.x), last.x) # {}
       /\ Records(slots_[last.x], FALSE, bind(last.x), S) # {}
  /\ Len(slots_[last.x]) = 1

\* the partner in the records of a slot of obj connected to signal S
Partner(S, obj) == IF obj \in Trackers THEN obj ELSE S

\* C22 as stated: remove deletes only the first matching record, so a slot
\* connected to a signal twice and disconnected once is still connected
\* once and the next emit invokes it exactly once.
C22_RemoveFirstOnly ==
  [][(/\ last'.op = "disconnect"
      /\ Cardinality(Records(slots_[last'.t], TRUE, bind(last'.x),
                              Partner(last'.t, last'.x))) = 2) =>
       /\ Cardinality(Records(slots_'[last'.t], TRUE, bind(last'.x),
                               Partner(last'.t, last'.x))) = 1
       /\ \A arg \in Args :
            Direct(call(slots_', last'.t, arg), last'.t, bind(last'.x)) = 1]_vars

\* C22: remove deletes every record matching both key and partner, so a
\* slot connected to a signal twice and disconnected once is no longer
\* connected and the next emit of the signal does not invoke it.
C22_RemoveEveryMatch ==
  [][last'.op = "disconnect" =>
       /\ Records(slots_'[last'.t], TRUE, bind(last'.x),
                   Partner(last'.t, last'.x)) = {}
       /\ \A arg \in Args :
            Direct(call(slots_', last'.t, arg), last'.t, bind(last'.x)) = 0]_vars

\* a callable was connected to a signal twice, the signal was copied, and
\* the callable has been disconnected from the signal once: the copy holds
\* its two records, the signal none
C22_Witness ==
  /\ last.op = "disconnect" /\ last.x \in Lambdas /\ alive[last.t]
  /\ Records(slots_[last.t], TRUE, bind(last.x), last.t) = {}
  /\ \E S \in Signals \ {last.t} :
       Cardinality(Records(slots_[S], TRUE, bind(last.x), S)) = 2


(***************************************************************************)
(* The structural operations of async trackers, called by one thread.      *)
(***************************************************************************)
\* a second receiver, to copy to and from
CopyReceivers == AsyncReceivers \cup {"Q"}

CopyTrackers == AsyncTrackers \cup CopyReceivers

\* the loop of async copy: add on this for every record of other, and
\* add_to_track or add_to_call on the partner of a tracked one
RECURSIVE async_copy_loop(_, _, _)
async_copy_loop(list, self, other) ==
  IF list = <<>> THEN <<>>
  ELSE LET slot == Head(list)
           copied_key == IF slot.call THEN slot.key ELSE copy_key(slot.key, self)
       IN (IF slot.tracker = other
             THEN async_add(self, copied_key, self, slot.call)
             ELSE async_add(self, copied_key, slot.tracker, slot.call)
                  \o async_add(slot.tracker, copied_key, self, ~slot.call))
          \o async_copy_loop(Tail(list), self, other)

\* async slot_tracker::copy: the scoped_semaphore of the tracker around the
\* loop
async_copy(t, other) == scoped(t, <<[i |-> "copy_loop", t |-> t, other |-> other]>>)

\* async slot_tracker::empty
async_empty(t) == scoped(t, <<[i |-> "empty", t |-> t]>>)

\* the signal S and the receivers R and Q constructed, nothing connected
StructInit ==
  /\ AggIdle
  /\ LockIdle
  /\ aslots = [t \in CopyTrackers |-> <<>>]
  /\ count_ = [t \in CopyTrackers |-> 0]
  /\ prog = [th \in Threads |-> <<>>]
  /\ out = [k \in Tasks |-> <<>>]
  /\ ready = [k \in Tasks |-> FALSE]
  /\ fut = [c \in Callers |-> NoTask]
  /\ snap = [k \in Tasks |-> <<>>]
  /\ behind = [c \in Callers |-> NoOp]
  /\ started = 0
  /\ local = [k \in Tasks |-> Null]
  /\ shared = [k \in Tasks |-> Null]
  /\ job = [k \in Tasks |-> Null]
  /\ objects = {}
  /\ alive = [t \in CopyTrackers |-> TRUE]
  /\ slots_ = [t \in Trackers |-> <<>>]
  /\ conn = [S \in Signals |-> NoConn]
  /\ last = Op("init", Null, Null)
  /\ log = <<>>

\* slot_tracker::operator=
AsyncCopyAssign(c, t, other) ==
  /\ t # other /\ Usable(t) /\ Usable(other)
  /\ Begin(c, "copy_assign", other, async_copy(t, other), t)

\* slot_tracker::empty()
AsyncEmpty(c, t) ==
  /\ Usable(t)
  /\ Begin(c, "empty", t, async_empty(t), t)

\* the loop of copy, entered with the semaphore of the tracker taken
CopyLoop(th) ==
  /\ prog[th] # <<>> /\ Next1(th).i = "copy_loop"
  /\ prog' = [prog EXCEPT ![th] =
                async_copy_loop(aslots[Next1(th).other], Next1(th).t, Next1(th).other)
                \o Tail(@)]
  /\ UNCHANGED <<syncvars, aslots, count_, out, ready, fut, snap, behind, started, local, shared, job>>

\* the body of empty: slots_.empty()
EmptyBody(th) ==
  /\ prog[th] # <<>> /\ Next1(th).i = "empty"
  /\ Pop(th)
  /\ UNCHANGED <<syncvars, aslots, count_, out, ready, fut, snap, behind, started, local, shared, job>>

\* one thread calls one operation after the other
StructNext ==
  \/ \E S \in AsyncSignals, obj \in AsyncReceivers \cup AsyncLambdas :
       DestroyConnect(Main, S, obj)
  \/ \E S \in AsyncSignals, obj \in AsyncReceivers \cup AsyncLambdas :
       DestroyDisconnect(Main, S, obj)
  \/ \E t \in CopyTrackers : AsyncDestroy(Main, t)
  \/ \E t, other \in CopyReceivers : AsyncCopyAssign(Main, t, other)
  \/ \E t \in CopyTrackers : AsyncEmpty(Main, t)
  \/ SemWait(Main)
  \/ SemNotify(Main)
  \/ AddBody(Main)
  \/ RemoveBody(Main)
  \/ ClearLoop(Main)
  \/ ClearBody(Main)
  \/ CopyLoop(Main)
  \/ EmptyBody(Main)

StructSpec == StructInit /\ [][StructNext]_vars

\* C23: a structural operation of an async tracker that one thread calls
\* while no semaphore is taken never waits: it takes the semaphore, runs
\* its body, releases the semaphore and returns, also a copy from a tracker
\* that has records.
C23_StructuralOperationReturns == ~Blocked(Main)


(***************************************************************************)
(* The threads that wait in semaphore::wait, in the order of their calls.  *)
(***************************************************************************)
\* the place of thread th among the waiting threads, 0 if it does not wait
Place(waiting, th) ==
  IF \E n \in DOMAIN waiting : waiting[n] = th
    THEN CHOOSE n \in DOMAIN waiting : waiting[n] = th
    ELSE 0

\* order: the threads inside cond_var_.wait of the signal, first caller first
WaitInit ==
  /\ AsyncIdle
  /\ LockIdle
  /\ result = Null /\ sink = <<>> /\ order = <<>>
  /\ objects = {}
  /\ alive = [t \in Trackers |-> FALSE]
  /\ slots_ = [t \in Trackers |-> <<>>]
  /\ conn = [S \in Signals |-> NoConn]
  /\ last = Op("init", NoTask, 0)
  /\ log = <<>>

\* the call of an operation up to the predicate of its sem_.wait(), which
\* the thread evaluates with the mutex of the tracker locked: it takes the
\* semaphore, or it enters cond_var_.wait
WaitBegin(c, name, obj, program, S) ==
  /\ prog[c] = <<>>
  /\ started < MaxOps
  /\ started' = started + 1
  /\ behind' = [behind EXCEPT ![c] = [op |-> name, obj |-> obj, tasks |-> InFlight(prog, S)]]
  /\ IF wait_ready(count_[S])
       THEN /\ count_' = [count_ EXCEPT ![S] = @ - 1]
            /\ prog' = [prog EXCEPT ![c] = Tail(program)]
            /\ order' = order
       ELSE /\ prog' = [prog EXCEPT ![c] = program]
            /\ order' = Append(order, c)
            /\ count_' = count_
  /\ UNCHANGED <<objects, alive, slots_, conn, last, log, result, sink, lockvars>>
  /\ UNCHANGED <<aslots, out, ready, fut, snap, local, shared, job>>

\* signal.connect(lambda)
WaitConnect(c, S, obj) ==
  /\ Len(aslots[S]) + Cardinality(PendingAdds(prog, S)) < MaxSlots
  /\ WaitBegin(c, "connect", obj, async_signal_add(S, async_bind(obj), obj), S)

\* future = signal.emit()
WaitEmit(c, S) ==
  /\ EmitsLeft
  /\ WaitBegin(c, "emit", Null, async_call(S), S)

\* a thread in cond_var_.wait, woken by notify_all, finds count_ >= 0 and
\* takes the semaphore
Wake(c) ==
  /\ prog[c] # <<>> /\ Next1(c).i = "wait"
  /\ wait_ready(count_[Next1(c).t])
  /\ count_' = [count_ EXCEPT ![Next1(c).t] = @ - 1]
  /\ Pop(c)
  /\ order' = SelectSeq(order, LAMBDA th : th # c)
  /\ last' = Op("wait", c, Place(order, c))
  /\ UNCHANGED <<objects, alive, slots_, conn, log, result, sink, lockvars>>
  /\ UNCHANGED <<aslots, out, ready, fut, snap, behind, started, local, shared, job>>

\* what a caller thread does between taking the semaphore and returning
CallerStep(c) == AddBody(c) \/ SemNotify(c) \/ Launch(c)

WaitNext ==
  \/ \E c \in Callers, S \in AsyncSignals, obj \in AsyncLambdas : WaitConnect(c, S, obj)
  \/ \E c \in Callers, S \in AsyncSignals : WaitEmit(c, S)
  \/ \E c \in Callers : Wake(c)
  \/ \E th \in Threads : SemNotify(th)
  \/ \E c \in Callers : AddBody(c)
  \/ \E c \in Callers : Launch(c)
  \/ \E k \in Tasks : Walk(k)
  \/ \E k \in Tasks : SetValue(k)

\* every thread that can run does run, and a waiting thread that finds
\* count_ >= 0 again and again takes the semaphore at some time
WaitFairSpec ==
  /\ WaitInit /\ [][WaitNext]_vars
  /\ \A k \in Tasks : WF_vars(TaskStep(k))
  /\ \A c \in Callers : WF_vars(CallerStep(c)) /\ SF_vars(Wake(c))

ThreadSafe == Policies \ {"cpp_signal_no_locking"}

\* slot_tracker::add and remove: lock_guard, then the change of slots_
add_steps(t, key, tracker, to_call) ==
  lock_guard(t, <<[e |-> "add", t |-> t, key |-> key, tracker |-> tracker, call |-> to_call]>>)

remove_steps(t, key, tracker) ==
  lock_guard(t, <<[e |-> "remove", t |-> t, key |-> key, tracker |-> tracker]>>)

\* signal::add: add_to_call on the signal, then add_to_track on the tracker
signal_add_steps(S, key, obj) ==
  IF obj \in Trackers
    THEN add_steps(S, key, obj, TRUE) \o add_steps(obj, key, S, FALSE)
    ELSE add_steps(S, key, S, TRUE)

\* signal::remove: remove on the signal, then remove on the tracker
signal_remove_steps(S, key, obj) ==
  IF obj \in Trackers
    THEN remove_steps(S, key, obj) \o remove_steps(obj, key, S)
    ELSE remove_steps(S, key, S)

\* slot_tracker::call: lock_guard, then the loop over slots_
call_steps(S) == lock_guard(S, <<[e |-> "walk", t |-> S, pos |-> 1]>>)

MutexSignals == {"A"}
MutexObjects == {"r", "f"}

\* the signal A and the receiver r constructed, nothing connected
MutexInit ==
  /\ AggIdle
  /\ locking_policy \in ThreadSafe
  /\ stopped = Null
  /\ owner = NoOwner
  /\ aslots = [t \in AsyncTrackers |-> <<>>]
  /\ count_ = [t \in AsyncTrackers |-> 0]
  /\ prog = [th \in Threads |-> <<>>]
  /\ out = [c \in Callers |-> <<>>]
  /\ ready = [k \in Tasks |-> FALSE]
  /\ fut = [c \in Callers |-> NoTask]
  /\ snap = [c \in Callers |-> <<>>]
  /\ behind = [c \in Callers |-> NoOp]
  /\ started = 0
  /\ local = [k \in Tasks |-> Null]
  /\ shared = [k \in Tasks |-> Null]
  /\ job = [k \in Tasks |-> Null]
  /\ objects = MutexSignals \cup MutexObjects
  /\ alive = [t \in Trackers |-> t \in MutexSignals \cup MutexObjects]
  /\ slots_ = [t \in Trackers |-> <<>>]
  /\ conn = [S \in Signals |-> NoConn]
  /\ last = Op("init", Null, Null)
  /\ log = <<>>

mutexfixed == <<locking_policy, stopped, objects, alive, conn, last, log, aggvars,
                aslots, count_, ready, fut, local, shared, job>>

\* the adds to tracker t that threads have still to make
PendingSteps(p, t) ==
  UNION {{<<c, n>> : n \in {m \in DOMAIN p[c] : p[c][m].e = "add" /\ p[c][m].t = t}} :
           c \in Callers}

MutexBegin(c, name, obj, program) ==
  /\ prog[c] = <<>>
  /\ started < MaxOps
  /\ started' = started + 1
  /\ prog' = [prog EXCEPT ![c] = program]
  /\ behind' = [behind EXCEPT ![c] = [op |-> name, obj |-> obj, tasks |-> {}]]
  /\ out' = [out EXCEPT ![c] = <<>>]
  /\ UNCHANGED <<mutexfixed, owner, slots_, snap>>

\* signal.connect(obj)
MutexConnect(c, S, obj) ==
  /\ Len(slots_[S]) + Cardinality(PendingSteps(prog, S)) < MaxSlots
  /\ obj \in Trackers =>
       Len(slots_[obj]) + Cardinality(PendingSteps(prog, obj)) < MaxSlots
  /\ MutexBegin(c, "connect", obj, signal_add_steps(S, bind(obj), obj))

\* signal.disconnect(obj)
MutexDisconnect(c, S, obj) ==
  /\ obj \in objects
  /\ MutexBegin(c, "disconnect", obj, signal_remove_steps(S, bind(obj), obj))

\* signal.emit()
MutexEmit(c, S) ==
  /\ alive[S]
  /\ MutexBegin(c, "emit", S, call_steps(S))

\* std::mutex::lock: the thread goes on when no thread owns the mutex; it
\* sees slots_ from here on
Lock(c) ==
  /\ prog[c] # <<>> /\ Next1(c).e = "lock"
  /\ owner[mutex(locking_policy, Next1(c).t)] = Nobody
  /\ owner' = [owner EXCEPT ![mutex(locking_policy, Next1(c).t)] = c]
  /\ snap' = [snap EXCEPT ![c] = slots_[Next1(c).t]]
  /\ Pop(c)
  /\ UNCHANGED <<mutexfixed, slots_, out, behind, started>>

\* std::mutex::unlock, at the end of the scope of the lock_guard
Unlock(c) ==
  /\ prog[c] # <<>> /\ Next1(c).e = "unlock"
  /\ owner' = [owner EXCEPT ![mutex(locking_policy, Next1(c).t)] = Nobody]
  /\ Pop(c)
  /\ Return(c)
  /\ UNCHANGED <<mutexfixed, slots_, out, snap, started>>

\* the body of add: slots_.emplace_front
AddStep(c) ==
  /\ prog[c] # <<>> /\ Next1(c).e = "add"
  /\ slots_' = add(slots_, Next1(c).t, Next1(c).key, Next1(c).tracker, Next1(c).call)
  /\ Pop(c)
  /\ Return(c)
  /\ UNCHANGED <<mutexfixed, owner, out, snap, started>>

\* the body of remove: slots_.remove_if
RemoveStep(c) ==
  /\ prog[c] # <<>> /\ Next1(c).e = "remove"
  /\ slots_' = remove(slots_, Next1(c).t, Next1(c).key, Next1(c).tracker)
  /\ Pop(c)
  /\ Return(c)
  /\ UNCHANGED <<mutexfixed, owner, out, snap, started>>

\* one turn of the loop of call: the next record, invoked if it is a
\* Call-role record
WalkStep(c) ==
  /\ prog[c] # <<>> /\ Next1(c).e = "walk"
  /\ LET list == slots_[Next1(c).t]
         pos == Next1(c).pos
     IN IF pos > Len(list)
          THEN /\ Pop(c)
               /\ out' = out
          ELSE /\ prog' = [prog EXCEPT ![c] = <<[Next1(c) EXCEPT !.pos = pos + 1]>> \o Tail(@)]
               /\ out' = IF list[pos].call
                           THEN [out EXCEPT ![c] = Append(@, list[pos])]
                           ELSE out
  /\ Return(c)
  /\ UNCHANGED <<mutexfixed, owner, slots_, snap, started>>

MutexNext ==
  \/ \E c \in Callers, S \in MutexSignals, obj \in MutexObjects : MutexConnect(c, S, obj)
  \/ \E c \in Callers, S \in MutexSignals, obj \in MutexObjects : MutexDisconnect(c, S, obj)
  \/ \E c \in Callers, S \in MutexSignals : MutexEmit(c, S)
  \/ \E c \in Callers : Lock(c)
  \/ \E c \in Callers : Unlock(c)
  \/ \E c \in Callers : AddStep(c)
  \/ \E c \in Callers : RemoveStep(c)
  \/ \E c \in Callers : WalkStep(c)

MutexSpec == MutexInit /\ [][MutexNext]_vars

\* the thread is in the loop of call on signal S
Walking(c, S) ==
  prog[c] # <<>> /\ Next1(c).e = "walk" /\ Next1(c).t = S

\* the thread is between the lock and the unlock of an operation on S
Inside(c, S) ==
  prog[c] # <<>> /\ Next1(c).e \in {"add", "remove", "walk", "unlock"} /\ Next1(c).t = S

\* C25: with a mutex in every instance, while a thread walks the registry
\* of signal S in an emission it owns the mutex of S, no other thread is
\* inside a connect, disconnect or emission on S, and the registry is the
\* one the thread found when it took the lock.
C25_WalkExcludesMutation ==
  locking_policy \in {"cpp_signal_local_locking", "cpp_signal_recursive_local_locking"} =>
    \A c \in Callers : \A S \in MutexSignals :
      Walking(c, S) =>
        /\ owner[S] = c
        /\ slots_[S] = snap[c]
        /\ \A d \in Callers \ {c} : ~Inside(d, S)

\* a thread is in the middle of its walk over two records while the other
\* thread waits with a disconnect for the mutex of the signal
C25_Witness ==
  /\ locking_policy = "cpp_signal_local_locking"
  /\ \E c \in Callers : \E S \in MutexSignals :
       /\ Walking(c, S) /\ Next1(c).pos = 2 /\ Len(slots_[S]) = 2
       /\ \E d \in Callers \ {c} :
            /\ prog[d] # <<>> /\ Next1(d).e = "lock" /\ Next1(d).t = S
            /\ behind[d].op = "disconnect"

\* the Call-role records of S for another tracker that has no Track-role
\* record for S
Unmirrored(S) ==
  {n \in DOMAIN slots_[S] :
     /\ slots_[S][n].call /\ slots_[S][n].tracker # S
     /\ Records(slots_[slots_[S][n].tracker], FALSE, slots_[S][n].key, S) = {}}

\* C26: under a locking policy with a mutex no thread that walks the
\* registry of signal S in an emission, while another thread connects or
\* disconnects, finds in it a Call-role record for a tracked receiver that
\* has no Track-role record for S.
C26_MirrorNeverSeenMissing ==
  \A c \in Callers : \A S \in MutexSignals : Walking(c, S) => Unmirrored(S) = {}


(***************************************************************************)
(* The copy of a tracker, record by record.                                *)
(***************************************************************************)
\* the record that the copy C of tracker X holds for record slot of X
Image(slot, C, X) ==
  [key |-> IF slot.call THEN slot.key ELSE copy_key(slot.key, C),
   tracker |-> IF slot.tracker = X THEN C ELSE slot.tracker,
   call |-> slot.call]

RECURSIVE Images(_, _, _)
Images(list, C, X) ==
  IF list = <<>> THEN <<>>
  ELSE Images(Tail(list), C, X) \o <<Image(Head(list), C, X)>>

\* the records of list that are not held for tracker C
NotFor(list, C) == SelectSeq(list, LAMBDA slot : slot.tracker # C)

\* C27: the copy of tracker X into another tracker C leaves the registry
\* of X as it was and adds to C one record for each record of X, with the
\* role of the original; a third tracker P that is the partner of a record
\* of X gets one record of the opposite role for C and the key of the
\* copy, and keeps its records for X; the key of a copied Track-role
\* record names C as its object; no other registry changes.
C27_CopyMirrorsEveryRecord ==
  [][(last'.op \in {"copy_construct", "copy_assign"} /\ last'.t # last'.x) =>
       LET C == last'.t
           X == last'.x
           partners == {slots_[X][i].tracker : i \in DOMAIN slots_[X]} \ {X, C}
       IN /\ slots_'[X] = slots_[X]
          /\ Len(slots_'[C]) = Len(slots_[C]) + Len(slots_[X])
                                + Cardinality({i \in DOMAIN slots_[X] : slots_[X][i].tracker = C})
          /\ NotFor(slots_'[C], C) = NotFor(Images(slots_[X], C, X) \o slots_[C], C)
          /\ \A i \in DOMAIN slots_[X] :
               LET slot == slots_[X][i]
                   P == slot.tracker
                   img == Image(slot, C, X)
               IN /\ Records(slots_'[C], img.call, img.key, img.tracker) # {}
                  /\ ~slot.call /\ slot.key[1] # Null => img.key[1] = C
                  /\ P \in partners =>
                       /\ Cardinality(Records(slots_'[P], ~slot.call, img.key, C))
                            = Cardinality(Records(slots_[P], ~slot.call, img.key, C))
                              + Cardinality({j \in DOMAIN slots_[X] :
                                               Image(slots_[X][j], C, X) = img})
                       /\ NotFor(slots_'[P], C) = NotFor(slots_[P], C)
                       /\ Records(slots_'[P], slot.call, img.key, C) =
                            Records(slots_[P], slot.call, img.key, C)
          /\ \A t \in Trackers \ (partners \cup {C}) : slots_'[t] = slots_[t]]_vars

\* receiver q is the copy of receiver r, which signal A calls: q holds a
\* Track-role record with its own key, and A calls both
C27_Witness ==
  /\ last.op \in {"copy_construct", "copy_assign"} /\ last.t # last.x
  /\ \E i \in DOMAIN slots_[last.x] :
       LET slot == slots_[last.x][i]
           img == Image(slot, last.t, last.x)
       IN /\ ~slot.call /\ slot.tracker \notin {last.t, last.x}
          /\ img.key # slot.key
          /\ Records(slots_[last.t], FALSE, img.key, slot.tracker) # {}
          /\ Records(slots_[slot.tracker], TRUE, img.key, last.t) # {}
          /\ Records(slots_[slot.tracker], TRUE, slot.key, last.x) # {}


(***************************************************************************)
(* The emissions and the registries.                                       *)
(***************************************************************************)
EmissionKinds == {"emit", "accumulate", "accumulate_op", "aggregate", "collect"}

Pairs(s, t) ==
  {<<s[t][i].key, s[t][i].tracker>> : i \in DOMAIN s[t]} \cup {<<make_key(Null, "none"), t>>}

\* C29: a second clear() of a tracker and a second remove(key, partner) of
\* the same record change nothing, two removes on a tracker give the same
\* registry in either order, and the registries after the clear() of two
\* trackers are the same whichever is cleared first.
C29_ClearAndRemoveIdempotent ==
  \A t \in Trackers :
    /\ clear(clear(slots_, t), t) = clear(slots_, t)
    /\ \A u \in Trackers : clear(clear(slots_, t), u) = clear(clear(slots_, u), t)
    /\ \A p \in Pairs(slots_, t) :
         /\ remove(remove(slots_, t, p[1], p[2]), t, p[1], p[2]) = remove(slots_, t, p[1], p[2])
         /\ \A q \in Pairs(slots_, t) :
              remove(remove(slots_, t, p[1], p[2]), t, q[1], q[2])
                = remove(remove(slots_, t, q[1], q[2]), t, p[1], p[2])

\* a signal holds the same slot of a receiver twice, and the clear() of the
\* signal and of the receiver each change the registry of the other
C29_Witness ==
  \E t \in Signals : \E u \in Receivers :
    /\ alive[t] /\ alive[u]
    /\ Cardinality(Records(slots_[t], TRUE, bind(u), u)) = 2
    /\ clear(slots_, t)[u] # slots_[u]
    /\ clear(slots_, u)[t] # slots_[t]
    /\ remove(slots_, t, bind(u), u) # slots_


(***************************************************************************)
(* The mutex of the locking policy inside the semaphore of the async       *)
(* tracker: semaphore::wait and semaphore::notify step by step.            *)
(***************************************************************************)
\* a std::unique_lock that is never unlocked
unique_lock_kept(t, body) == <<[e |-> "lock", t |-> t]>> \o body

\* std::unique_lock<locking_policy> lock(tracker_) around a body
unique_lock(t, body) == lock_guard(t, body)

\* semaphore::wait: cond_var_.wait(lock, count_ >= 0), then --count_
wait_steps(t) ==
  unique_lock(t, <<[e |-> "cv_wait", t |-> t], [e |-> "decrement", t |-> t]>>)

\* semaphore::notify: ++count_ and cond_var_.notify_all()
notify_steps(t) == unique_lock(t, <<[e |-> "increment", t |-> t]>>)

\* scoped_semaphore around a body
scoped_steps(t, body) == wait_steps(t) \o body \o notify_steps(t)

\* async signal::add of an untracked slot
async_add_steps(S, key) ==
  scoped_steps(S, <<[e |-> "add", t |-> S, key |-> key, tracker |-> S, call |-> TRUE]>>)

\* async slot_tracker::call in the thread of the caller
async_call_steps(S) == wait_steps(S) \o <<[e |-> "async", t |-> S]>>

\* the task of call: the loop, sem_.notify(), the value of the future
call_task_steps(S) ==
  <<[e |-> "walk", t |-> S, pos |-> 1]>> \o notify_steps(S) \o <<[e |-> "set_value", t |-> S]>>

\* the signal A constructed with std::mutex as locking policy
SemInit ==
  /\ AggIdle
  /\ locking_policy = "cpp_signal_local_locking"
  /\ stopped = Null
  /\ owner = NoOwner
  /\ aslots = [t \in AsyncTrackers |-> <<>>]
  /\ count_ = [t \in Trackers |-> 0]
  /\ prog = [th \in Threads |-> <<>>]
  /\ out = [th \in Threads |-> <<>>]
  /\ ready = [k \in Tasks |-> FALSE]
  /\ fut = [c \in Callers |-> NoTask]
  /\ snap = [th \in Threads |-> <<>>]
  /\ behind = [c \in Callers |-> NoOp]
  /\ started = 0
  /\ local = [k \in Tasks |-> Null]
  /\ shared = [k \in Tasks |-> Null]
  /\ job = [k \in Tasks |-> Null]
  /\ objects = MutexSignals \cup Lambdas
  /\ alive = [t \in Trackers |-> t \in MutexSignals]
  /\ slots_ = [t \in Trackers |-> <<>>]
  /\ conn = [S \in Signals |-> NoConn]
  /\ last = Op("init", Null, Null)
  /\ log = <<>>

semfixed == <<locking_policy, stopped, objects, alive, conn, last, log, aggvars,
              aslots, local, shared, job, slots_, out, snap, started>>

\* signal.connect(lambda)
SemConnect(c, S, obj) ==
  /\ Len(slots_[S]) + Cardinality(PendingSteps(prog, S)) < MaxSlots
  /\ MutexBegin(c, "connect", obj, async_add_steps(S, bind(obj)))

\* future = signal.emit()
SemEmit(c, S) ==
  /\ fut[c] = NoTask
  /\ MutexBegin(c, "emit", S, async_call_steps(S))

\* future.wait()
HandleWait(c) ==
  /\ fut[c] # NoTask
  /\ MutexBegin(c, "future_wait", fut[c], <<[e |-> "future_wait", t |-> fut[c]]>>)

\* cond_var_.wait(lock, pred) with the mutex owned: it returns when
\* count_ >= 0, else it unlocks the mutex and blocks
CvWait(th) ==
  /\ prog[th] # <<>> /\ Next1(th).e = "cv_wait"
  /\ IF wait_ready(count_[Next1(th).t])
       THEN /\ Pop(th)
            /\ owner' = owner
       ELSE /\ prog' = [prog EXCEPT ![th] = <<[Next1(th) EXCEPT !.e = "cv_blocked"]>> \o Tail(@)]
            /\ owner' = [owner EXCEPT ![mutex(locking_policy, Next1(th).t)] = Nobody]
  /\ UNCHANGED <<semfixed, count_, ready, fut, behind>>

\* the blocked thread, notified, locks the mutex again and finds
\* count_ >= 0
CvWake(th) ==
  /\ prog[th] # <<>> /\ Next1(th).e = "cv_blocked"
  /\ wait_ready(count_[Next1(th).t])
  /\ owner[mutex(locking_policy, Next1(th).t)] = Nobody
  /\ owner' = [owner EXCEPT ![mutex(locking_policy, Next1(th).t)] = th]
  /\ Pop(th)
  /\ UNCHANGED <<semfixed, count_, ready, fut, behind>>

\* --count_
Decrement(th) ==
  /\ prog[th] # <<>> /\ Next1(th).e = "decrement"
  /\ count_' = [count_ EXCEPT ![Next1(th).t] = @ - 1]
  /\ Pop(th)
  /\ UNCHANGED <<semfixed, owner, ready, fut, behind>>

\* ++count_; cond_var_.notify_all()
Increment(th) ==
  /\ prog[th] # <<>> /\ Next1(th).e = "increment"
  /\ count_' = [count_ EXCEPT ![Next1(th).t] = @ + 1]
  /\ Pop(th)
  /\ UNCHANGED <<semfixed, owner, ready, fut, behind>>

\* slot_tracker::async: the task in a detached thread, its future returned
Spawn(c) ==
  /\ prog[c] # <<>> /\ Next1(c).e = "async"
  /\ \E k \in Tasks :
       /\ prog[k] = <<>> /\ ~ready[k] /\ \A d \in Callers : fut[d] # k
       /\ \A j \in Tasks : (prog[j] = <<>> /\ ~ready[j] /\ \A d \in Callers : fut[d] # j)
                              => k[2] <= j[2]
       /\ prog' = [prog EXCEPT ![c] = Tail(@), ![k] = call_task_steps(Next1(c).t)]
       /\ fut' = [fut EXCEPT ![c] = k]
  /\ Return(c)
  /\ UNCHANGED <<semfixed, owner, count_, ready>>

\* the packaged_task makes its future ready
Fulfil(k) ==
  /\ prog[k] # <<>> /\ Next1(k).e = "set_value"
  /\ ready' = [ready EXCEPT ![k] = TRUE]
  /\ Pop(k)
  /\ UNCHANGED <<semfixed, owner, count_, fut, behind>>

\* future.wait() returns when the future is ready
HandleReady(c) ==
  /\ prog[c] # <<>> /\ Next1(c).e = "future_wait"
  /\ ready[fut[c]]
  /\ ready' = [ready EXCEPT ![fut[c]] = FALSE]
  /\ fut' = [fut EXCEPT ![c] = NoTask]
  /\ Pop(c)
  /\ Return(c)
  /\ UNCHANGED <<semfixed, owner, count_>>

\* a step inside an operation or a task
SemStep(th) ==
  \/ Lock(th)
  \/ Unlock(th)
  \/ CvWait(th)
  \/ CvWake(th)
  \/ Decrement(th)
  \/ Increment(th)
  \/ AddStep(th)
  \/ WalkStep(th)
  \/ Fulfil(th)

SemNext ==
  \/ \E c \in Callers, S \in MutexSignals, obj \in Lambdas : SemConnect(c, S, obj)
  \/ \E c \in Callers, S \in MutexSignals : SemEmit(c, S)
  \/ \E c \in Callers : HandleWait(c)
  \/ \E c \in Callers : Spawn(c)
  \/ \E c \in Callers : HandleReady(c)
  \/ \E th \in Threads : Lock(th)
  \/ \E th \in Threads : Unlock(th)
  \/ \E th \in Threads : CvWait(th)
  \/ \E th \in Threads : CvWake(th)
  \/ \E th \in Threads : Decrement(th)
  \/ \E th \in Threads : Increment(th)
  \/ \E c \in Callers : AddStep(c)
  \/ \E k \in Tasks : WalkStep(k)
  \/ \E k \in Tasks : Fulfil(k)

SemSpec == SemInit /\ [][SemNext]_vars

\* the thread is inside semaphore::wait or semaphore::notify of tracker m,
\* at a statement that does not block
InSemaphore(th, m) ==
  /\ prog[th] # <<>>
  /\ Next1(th).e \in {"cv_wait", "decrement", "increment", "unlock"}
  /\ Next1(th).t = m

\* C30: in the async variant a thread owns the mutex of the locking policy
\* only inside semaphore::wait and semaphore::notify: not while it walks
\* the registry and runs the slots, not while it changes the registry, not
\* while it is blocked in the wait and not while it waits for a future; a
\* caller that waits for the future of its emission never stops its own
\* task.
C30_MutexOnlyInsideSemaphore ==
  /\ \A m \in Trackers : \A th \in Threads : owner[m] = th => InSemaphore(th, m)
  /\ \A c \in Callers :
       (prog[c] # <<>> /\ Next1(c).e = "future_wait" /\ ~ready[fut[c]]) =>
         /\ prog[fut[c]] # <<>>
         /\ \/ ENABLED SemStep(fut[c])
            \/ \E th \in Threads \ {c} : owner[Next1(fut[c]).t] = th /\ ENABLED SemStep(th)

\* a caller waits for the future of its emission while the task of the
\* emission, its walk over a slot done, is inside notify with the mutex
C30_Witness ==
  \E c \in Callers :
    /\ prog[c] # <<>> /\ Next1(c).e = "future_wait"
    /\ prog[fut[c]] # <<>> /\ Next1(fut[c]).e = "increment"
    /\ owner[Next1(fut[c]).t] = fut[c]
    /\ out[fut[c]] # <<>>


(***************************************************************************)
(* The semaphore of an emission and the future of that emission.           *)
(***************************************************************************)
\* the semaphore of tracker t is taken
Taken(t) == ~wait_ready(count_[t])

\* C31: in every state in which the future of an emission of S is ready,
\* that emission no longer holds the semaphore of S: the semaphore is free,
\* or it is held by the operation of another thread, which will release it,
\* so that no operation that starts after wait() returned waits for the
\* emission.
C31_ReadyHandleGateReleased ==
  \A k \in Tasks : \A S \in AsyncSignals :
    ready[k] => (~Taken(S) \/ Holders(prog, S) \ {k} # {})


(***************************************************************************)
(* A slot that throws, and the operations that follow the emission.  Two   *)
(* threads connect, disconnect and emit on S, assign the empty tracker Q   *)
(* to it and destroy it.                                                   *)
(***************************************************************************)
\* signal.emit() on a signal that is not being destroyed
LeakEmit(c, S) ==
  /\ Usable(S)
  /\ AsyncEmit(c, S)

LeakNext ==
  \/ \E c \in Callers, S \in AsyncSignals, obj \in AsyncLambdas \cup Throwers :
       DestroyConnect(c, S, obj)
  \/ \E c \in Callers, S \in AsyncSignals, obj \in AsyncLambdas \cup Throwers :
       DestroyDisconnect(c, S, obj)
  \/ \E c \in Callers, S \in AsyncSignals : LeakEmit(c, S)
  \/ \E c \in Callers, S \in AsyncSignals : AsyncCopyAssign(c, S, "Q")
  \/ \E c \in Callers, S \in AsyncSignals : AsyncDestroy(c, S)
  \/ \E th \in Threads : SemWait(th)
  \/ \E th \in Threads : SemNotify(th)
  \/ \E c \in Callers : AddBody(c)
  \/ \E c \in Callers : RemoveBody(c)
  \/ \E c \in Callers : CopyLoop(c)
  \/ \E c \in Callers : ClearLoop(c)
  \/ \E c \in Callers : ClearBody(c)
  \/ \E c \in Callers : Launch(c)
  \/ \E k \in Tasks : Walk(k)
  \/ \E k \in Tasks : SetValue(k)
  \/ \E k \in Tasks : SetException(k)

LeakSpec == StructInit /\ [][LeakNext]_vars

\* a slot has thrown in the walk of task k
Threw(k) == prog[k] = <<[i |-> "set_exception"]>> \/ shared[k] = Exception

\* the next step of thread th is the semaphore::wait of tracker t
AtWait(th, t) == prog[th] # <<>> /\ Head(prog[th]).i = "wait" /\ Head(prog[th]).t = t

\* C32: once a slot has thrown in the walk of an emission of S, the
\* sem_.notify() of that walk is never made: the semaphore of S is taken and
\* no thread holds it, every thread is idle or waits for that semaphore at
\* the first step of its operation (emit, connect, disconnect, copy or the
\* clear of the destructor), and no later step releases the semaphore, lets
\* a waiting thread pass or changes or frees the registry of S.
C32_ThrowLeavesGateTaken ==
  /\ [](\A S \in AsyncSignals :
          (\E k \in Tasks : Threw(k)) =>
            /\ Taken(S) /\ Holders(prog, S) = {}
            /\ \A c \in Callers :
                 \/ prog[c] = <<>>
                 \/ AtWait(c, S) /\ Len(prog[c]) >= 2 /\ behind[c].op # "none")
  /\ [][\A S \in AsyncSignals :
          (\E k \in Tasks : Threw(k)) =>
            /\ count_' = count_ /\ aslots' = aslots /\ alive' = alive
            /\ \E k \in Tasks : Threw(k)'
            /\ \A c \in Callers : AtWait(c, S) => prog'[c] = prog[c]]_vars

\* a slot threw, the future of the emission is ready, and the two threads
\* wait in a later emit and in a copy to the signal
C32_Witness ==
  /\ \E k \in Tasks : shared[k] = Exception /\ ready[k] /\ prog[k] = <<>>
  /\ \E c, d \in Callers :
       /\ behind[c].op = "emit" /\ Blocked(c)
       /\ behind[d].op = "copy_assign" /\ Blocked(d)


(***************************************************************************)
(* The two registries of a connection as multisets.                        *)
(***************************************************************************)
\* C33: after every connect, disconnect, copy construction, copy
\* assignment and destruction made by one thread, for every two distinct
\* live trackers A and O and every key, A holds as many Call-role records
\* with that key and partner O as O holds Track-role records with that key
\* and partner A.
C33_MirrorMultisetsEqual ==
  \A A, O \in Trackers : \A key \in Keys :
    (A # O /\ alive[A] /\ alive[O]) =>
      Cardinality(Records(slots_[A], TRUE, key, O))
        = Cardinality(Records(slots_[O], FALSE, key, A))

\* the copy of a receiver has just been made: a signal holds a Call-role
\* record for the copy and one for the original, a second signal holds the
\* same slot of the original receiver twice, and the receiver has the two
\* Track-role records for it
C33_Witness ==
  /\ last.op \in {"copy_construct", "copy_assign"} /\ last.t \in Receivers
  /\ \E A \in Signals :
       /\ Cardinality(Records(slots_[A], TRUE, bind(last.t), last.t)) >= 1
       /\ Cardinality(Records(slots_[A], TRUE, bind(last.x), last.x)) >= 1
  /\ \E A \in Signals : \E O \in Receivers :
       /\ Cardinality(Records(slots_[A], TRUE, bind(O), O)) = 2
       /\ Cardinality(Records(slots_[O], FALSE, bind(O), A)) = 2


(***************************************************************************)
(* Copy assignment to a tracker that has records.                          *)
(***************************************************************************)
\* the last n elements of a list
Last(list, n) == SubSeq(list, Len(list) - n + 1, Len(list))

\* C34: operator= does not clear its target.  After b = a the registry of
\* b is the copies of the records of a, put in front of the records b held
\* before, which are all kept; a partner of a record of a gets one mirror
\* record for b for each copy.  After a = a the registry of a holds every
\* record twice, and an emission of a invokes every slot twice as often as
\* before.
C34_CopyAssignKeepsTarget ==
  [][last'.op = "copy_assign" =>
       LET b == last'.t
           a == last'.x
           mirrored == {i \in DOMAIN slots_[a] : slots_[a][i].tracker = b /\ a # b}
       IN /\ Len(slots_'[b]) = Len(slots_[b]) + Len(slots_[a]) + Cardinality(mirrored)
          /\ Last(slots_'[b], Len(slots_[b])) = slots_[b]
          /\ \A i \in DOMAIN slots_[a] :
               LET slot == slots_[a][i]
                   img == Image(slot, b, a)
                   copies == Cardinality({j \in DOMAIN slots_[a] :
                                            Image(slots_[a][j], b, a) = img})
               IN /\ Cardinality(Records(slots_'[b], img.call, img.key, img.tracker))
                       >= Cardinality(Records(slots_[b], img.call, img.key, img.tracker))
                          + copies
                  /\ slot.tracker \notin {a, b} =>
                       Cardinality(Records(slots_'[slot.tracker], ~img.call, img.key, b))
                         = Cardinality(Records(slots_[slot.tracker], ~img.call, img.key, b))
                           + copies
          /\ a = b =>
               /\ slots_'[a] = Images(slots_[a], a, a) \o slots_[a]
               /\ \A i \in DOMAIN slots_[a] :
                    LET slot == slots_[a][i]
                    IN Cardinality(Records(slots_'[a], slot.call, slot.key, slot.tracker))
                         = 2 * Cardinality(Records(slots_[a], slot.call, slot.key, slot.tracker))
               /\ \A arg \in Args : \A key \in Keys :
                    Direct(call(slots_', a, arg), a, key)
                      = 2 * Direct(call(slots_, a, arg), a, key)]_vars

\* a signal with a tracked slot has been assigned to itself: it holds the
\* record twice, the receiver holds two Track-role records, and an emission
\* invokes the slot twice
C34_Witness ==
  /\ last.op = "copy_assign" /\ last.t = last.x /\ last.t \in Signals
  /\ \E r \in Receivers :
       /\ Cardinality(Records(slots_[last.t], TRUE, bind(r), r)) = 2
       /\ Cardinality(Records(slots_[r], FALSE, bind(r), last.t)) = 2
       /\ conn[last.t][bind(r)] = 2
       /\ Direct(call(slots_, last.t, 1), last.t, bind(r)) = 2


(***************************************************************************)
(* A slot that calls back into the signal that invokes it.  One thread     *)
(* uses a sync signal and an async signal, both with a std::mutex as       *)
(* locking policy (one per instance, or the static one).  The slots        *)
(* "connecter", "disconnecter" and "emitter" call connect(f),              *)
(* disconnect(f) and emit() on the signal whose walk invokes them.         *)
(***************************************************************************)
NestSync == "A"                   \* a cpp_signal<locking_policy>::signal
NestAsync == "B"                  \* a cpp_signal_async<locking_policy>::signal
Nested == {"connecter", "disconnecter", "emitter"}
NestSlots == Lambdas \cup Nested
Blocking == {"cpp_signal_local_locking", "cpp_signal_global_locking"}

\* async signal::remove of an untracked slot
async_remove_steps(S, key) ==
  scoped_steps(S, <<[e |-> "remove", t |-> S, key |-> key, tracker |-> S]>>)

\* what the body of a slot calls on signal S
nested_call(obj, S) ==
  IF obj = "connecter"
    THEN (IF S = NestAsync THEN async_add_steps(S, bind("f"))
          ELSE signal_add_steps(S, bind("f"), "f"))
  ELSE IF obj = "disconnecter"
    THEN (IF S = NestAsync THEN async_remove_steps(S, bind("f"))
          ELSE signal_remove_steps(S, bind("f"), "f"))
  ELSE (IF S = NestAsync THEN async_call_steps(S) ELSE call_steps(S))

NestInit ==
  /\ AggIdle
  /\ locking_policy \in Blocking
  /\ stopped = Null
  /\ owner = NoOwner
  /\ aslots = [t \in AsyncTrackers |-> <<>>]
  /\ count_ = [t \in Trackers |-> 0]
  /\ prog = [th \in Threads |-> <<>>]
  /\ out = [th \in Threads |-> <<>>]
  /\ ready = [k \in Tasks |-> FALSE]
  /\ fut = [c \in Callers |-> NoTask]
  /\ snap = [th \in Threads |-> <<>>]
  /\ behind = [c \in Callers |-> NoOp]
  /\ started = 0
  /\ local = [k \in Tasks |-> Null]
  /\ shared = [k \in Tasks |-> Null]
  /\ job = [k \in Tasks |-> Null]
  /\ objects = {NestSync, NestAsync} \cup NestSlots
  /\ alive = [t \in Trackers |-> t \in {NestSync, NestAsync}]
  /\ slots_ = [t \in Trackers |-> <<>>]
  /\ conn = [S \in Signals |-> NoConn]
  /\ last = Op("init", Null, Null)
  /\ log = <<>>

\* signal.connect(obj)
NestConnect(c, S, obj) ==
  /\ stopped = Null
  /\ Len(slots_[S]) + Cardinality(PendingSteps(prog, S)) < MaxSlots
  /\ MutexBegin(c, "connect", obj,
                IF S = NestAsync THEN async_add_steps(S, bind(obj))
                ELSE signal_add_steps(S, bind(obj), obj))

\* signal.disconnect(obj)
NestDisconnect(c, S, obj) ==
  /\ stopped = Null
  /\ MutexBegin(c, "disconnect", obj,
                IF S = NestAsync THEN async_remove_steps(S, bind(obj))
                ELSE signal_remove_steps(S, bind(obj), obj))

\* signal.emit()
NestEmit(c, S) ==
  /\ stopped = Null
  /\ S = NestAsync => \E k \in Tasks : prog[k] = <<>> /\ ~ready[k] /\ fut[c] # k
  /\ MutexBegin(c, "emit", S, IF S = NestAsync THEN async_call_steps(S) ELSE call_steps(S))

\* one turn of the loop of call, sync or in the task: the next record,
\* invoked if it is a Call-role record; the body of a slot that calls back
\* runs in the thread of the walk before the loop goes on
NestWalk(th) ==
  /\ prog[th] # <<>> /\ Next1(th).e = "walk"
  /\ LET S == Next1(th).t
         list == slots_[S]
         pos == Next1(th).pos
         on == <<[Next1(th) EXCEPT !.pos = pos + 1]>> \o Tail(prog[th])
     IN IF pos > Len(list)
          THEN /\ Pop(th)
               /\ out' = out
          ELSE IF ~list[pos].call
          THEN /\ prog' = [prog EXCEPT ![th] = on]
               /\ out' = out
          ELSE /\ prog' = [prog EXCEPT ![th] =
                             (IF list[pos].key[1] \in Nested
                                THEN nested_call(list[pos].key[1], S)
                                ELSE <<>>) \o on]
               /\ out' = [out EXCEPT ![th] = Append(@, list[pos])]
  /\ Return(th)
  /\ UNCHANGED <<mutexfixed, owner, slots_, snap, started>>

\* std::mutex::lock by the thread that owns the mutex: the behaviour is
\* undefined.  The thread blocks for ever, or lock() throws
\* std::system_error: out of connect or disconnect, which are noexcept, that
\* is std::terminate; out of emit it unwinds the slot and the walk that
\* invoked it, whose lock_guard unlocks, and leaves the outer emit.
Relock(th) ==
  /\ prog[th] # <<>> /\ Next1(th).e = "lock"
  /\ owner[mutex(locking_policy, Next1(th).t)] = th
  /\ stopped = Null
  /\ \E how \in Stops :
       /\ stopped' = how
       /\ IF how = "system_error" /\ prog[th][2].e = "walk"
            THEN /\ prog' = [prog EXCEPT ![th] = <<>>]
                 /\ owner' = [m \in Mutexes |-> IF owner[m] = th THEN Nobody ELSE owner[m]]
                 /\ behind' = [c \in Callers |-> IF c = th THEN NoOp ELSE behind[c]]
            ELSE UNCHANGED <<prog, owner, behind>>
  /\ UNCHANGED <<locking_policy, objects, alive, conn, last, log, aggvars, aslots, count_,
                 ready, fut, local, shared, job, slots_, out, snap, started>>

NestNext ==
  \/ \E obj \in NestSlots : NestConnect(Main, NestSync, obj)
  \/ \E obj \in Nested : NestConnect(Main, NestAsync, obj)
  \/ \E obj \in Lambdas : NestDisconnect(Main, NestSync, obj)
  \/ \E S \in {NestSync, NestAsync} : NestEmit(Main, S)
  \/ \E th \in Threads : Spawn(th)
  \/ \E th \in Threads : Lock(th)
  \/ \E th \in Threads : Relock(th)
  \/ \E th \in Threads : Unlock(th)
  \/ \E th \in Threads : CvWait(th)
  \/ \E th \in Threads : CvWake(th)
  \/ \E th \in Threads : Decrement(th)
  \/ \E th \in Threads : Increment(th)
  \/ \E th \in Threads : AddStep(th)
  \/ \E th \in Threads : RemoveStep(th)
  \/ \E th \in Threads : NestWalk(th)
  \/ \E k \in Tasks : Fulfil(k)

NestSpec == NestInit /\ [][NestNext]_vars

\* the thread is in the body of a slot that the walk of signal S invoked:
\* the loop of that walk waits below the steps of the call the slot made
InNested(th, S) ==
  \E n \in 2 .. Len(prog[th]) :
    prog[th][n].e = "walk" /\ prog[th][n].t = S /\ prog[th][n].pos > 1

CopyTarget == "C"

\* the source: the sync signal or the async one
CopySource == IF NestAsync \in objects THEN NestAsync ELSE NestSync

\* the adds that the loop of copy makes for one record of other
copy_record_steps(slot, self, other, async) ==
  LET copied_key == IF slot.call THEN slot.key ELSE copy_key(slot.key, self)
      partner == IF slot.tracker = other THEN self ELSE slot.tracker
      own == [e |-> "add", t |-> self, key |-> copied_key, tracker |-> partner,
              call |-> slot.call]
      mirror == [e |-> "add", t |-> slot.tracker, key |-> copied_key, tracker |-> self,
                 call |-> ~slot.call]
  IN IF async
       THEN scoped_steps(self, <<own>>)
            \o (IF slot.tracker = other THEN <<>> ELSE scoped_steps(slot.tracker, <<mirror>>))
       ELSE lock_guard(self, <<own>>)
            \o (IF slot.tracker = other THEN <<>> ELSE lock_guard(slot.tracker, <<mirror>>))

\* slot_tracker::copy: the lock_guard, or the scoped_semaphore, of this
\* tracker around the loop over other.slots_
copy_steps(self, other, async) ==
  IF async
    THEN scoped_steps(self, <<[e |-> "copy", t |-> self, other |-> other, pos |-> 1]>>)
    ELSE lock_guard(self, <<[e |-> "copy", t |-> self, other |-> other, pos |-> 1]>>)

RaceInit ==
  /\ AggIdle
  /\ \/ objects = {NestSync, CopyTarget} \cup Lambdas /\ locking_policy \in Blocking
     \/ objects = {NestAsync, CopyTarget} \cup Lambdas
          /\ locking_policy = "cpp_signal_local_locking"
  /\ stopped = Null
  /\ owner = NoOwner
  /\ aslots = [t \in AsyncTrackers |-> <<>>]
  /\ count_ = [t \in Trackers |-> 0]
  /\ prog = [th \in Threads |-> <<>>]
  /\ out = [th \in Threads |-> <<>>]
  /\ ready = [k \in Tasks |-> FALSE]
  /\ fut = [c \in Callers |-> NoTask]
  /\ snap = [th \in Threads |-> <<>>]
  /\ behind = [c \in Callers |-> NoOp]
  /\ started = 0
  /\ local = [k \in Tasks |-> Null]
  /\ shared = [k \in Tasks |-> Null]
  /\ job = [k \in Tasks |-> Null]
  /\ alive = [t \in Trackers |-> t \in objects]
  /\ slots_ = [t \in Trackers |-> <<>>]
  /\ conn = [S \in Signals |-> NoConn]
  /\ last = Op("init", Nobody, [owner |-> Nobody, taken |-> FALSE])
  /\ log = <<>>

\* source.connect(obj)
RaceConnect(c, obj) ==
  /\ stopped = Null
  /\ Len(slots_[CopySource]) + Cardinality(PendingSteps(prog, CopySource)) < MaxSlots
  /\ MutexBegin(c, "connect", obj,
                IF CopySource = NestAsync THEN async_add_steps(CopySource, bind(obj))
                ELSE signal_add_steps(CopySource, bind(obj), obj))

\* source.disconnect(obj) of the sync signal
RaceDisconnect(c, obj) ==
  /\ stopped = Null
  /\ CopySource = NestSync
  /\ MutexBegin(c, "disconnect", obj, signal_remove_steps(CopySource, bind(obj), obj))

\* source.emit() of the async signal
RaceEmit(c) ==
  /\ stopped = Null
  /\ CopySource = NestAsync
  /\ \E k \in Tasks : prog[k] = <<>> /\ ~ready[k] /\ fut[c] # k
  /\ MutexBegin(c, "emit", CopySource, async_call_steps(CopySource))

\* C = source
RaceCopyAssign(c) ==
  /\ stopped = Null
  /\ \A d \in Callers : behind[d].op # "copy_assign"
  /\ Len(slots_[CopyTarget]) + Len(slots_[CopySource])
       + Cardinality(PendingSteps(prog, CopySource)) <= MaxSlots
  /\ MutexBegin(c, "copy_assign", CopySource,
                copy_steps(CopyTarget, CopySource, CopySource = NestAsync))

\* one turn of the loop of copy: the read of other.slots_, and the adds
\* for the record it finds
CopyRead(th) ==
  /\ prog[th] # <<>> /\ Next1(th).e = "copy"
  /\ LET self == Next1(th).t
         other == Next1(th).other
         pos == Next1(th).pos
         list == slots_[other]
     IN /\ prog' = [prog EXCEPT ![th] =
                      IF pos > Len(list) THEN Tail(@)
                      ELSE copy_record_steps(list[pos], self, other, CopySource = NestAsync)
                           \o <<[Next1(th) EXCEPT !.pos = pos + 1]>> \o Tail(@)]
        /\ last' = Op("copy_read", th,
                      [owner |-> owner[mutex(locking_policy, other)], taken |-> Taken(other)])
  /\ UNCHANGED <<locking_policy, stopped, objects, alive, conn, log, aggvars, aslots, count_,
                 ready, fut, local, shared, job, owner, slots_, out, snap, started, behind>>

RaceNext ==
  \/ \E c \in Callers, obj \in Lambdas : RaceConnect(c, obj)
  \/ \E c \in Callers, obj \in Lambdas : RaceDisconnect(c, obj)
  \/ \E c \in Callers \ {Main} : RaceEmit(c)
  \/ RaceCopyAssign(Main)
  \/ \E c \in Callers : CopyRead(c)
  \/ \E c \in Callers : Spawn(c)
  \/ \E th \in Threads : Lock(th)
  \/ \E c \in Callers : Relock(c)
  \/ \E th \in Threads : Unlock(th)
  \/ \E th \in Threads : CvWait(th)
  \/ \E th \in Threads : CvWake(th)
  \/ \E th \in Threads : Decrement(th)
  \/ \E th \in Threads : Increment(th)
  \/ \E c \in Callers : AddStep(c)
  \/ \E c \in Callers : RemoveStep(c)
  \/ \E k \in Tasks : WalkStep(k)
  \/ \E k \in Tasks : Fulfil(k)

RaceSpec == RaceInit /\ [][RaceNext]_vars

\* the thread is in copy
Copying(c) == behind[c].op = "copy_assign" /\ prog[c] # <<>>

\* the thread is at a step of semaphore::wait of tracker t
Waits(th, t) ==
  \E n \in DOMAIN prog[th] :
    prog[th][n].e \in {"cv_wait", "cv_blocked", "decrement"} /\ prog[th][n].t = t

\* C36 as stated: a thread in copy(other) never owns the lock that guards
\* the operations of the source.
C36_CopyNeverHoldsSourceLock ==
  \A c \in Callers : Copying(c) => owner[mutex(locking_policy, CopySource)] # c

\* C36: a thread in copy(other) locks or waits for nothing of the source
\* when every tracker has a lock or a gate of its own: with a std::mutex
\* in each instance it owns at most the mutex of the destination, and it
\* owns that one whenever it reads the registry of the source, also while
\* another thread owns the mutex of the source inside an add or remove; in
\* the async variant it waits for the semaphore of the destination only
\* and reads the registry of the source also while the semaphore of the
\* source is taken by an emission.  With the global policy the mutex of
\* the destination is the one static mutex that guards the source too, so
\* the copy reads the source only while no other thread is inside a
\* guarded operation of it.
C36_CopyLocksDestinationOnly ==
  /\ [](\A c \in Callers : Copying(c) =>
          /\ locking_policy = "cpp_signal_local_locking" =>
               /\ owner[CopySource] # c
               /\ \A m \in Mutexes : owner[m] = c => m = CopyTarget
          /\ ~Waits(c, CopySource)
          /\ (Next1(c).e = "copy" /\ CopySource = NestSync) =>
               owner[mutex(locking_policy, CopyTarget)] = c
          /\ (Next1(c).e = "copy" /\ CopySource = NestAsync) =>
               Taken(CopyTarget) /\ owner[CopyTarget] # c)
  /\ [][(last' # last /\ last'.op = "copy_read") =>
          /\ locking_policy = "cpp_signal_global_locking" => last'.x.owner = last'.t
          /\ locking_policy = "cpp_signal_local_locking" => last'.x.owner # last'.t]_vars

\* a thread in copy has read the registry of the sync source while the
\* other thread owned the mutex of the source and was about to emplace the
\* record of its connect
C36_Witness ==
  /\ last.op = "copy_read" /\ CopySource = NestSync
  /\ last.x.owner \in Callers \ {last.t}
  /\ owner[CopySource] = last.x.owner
  /\ Next1(last.x.owner).e = "add" /\ Next1(last.x.owner).t = CopySource
  /\ Copying(last.t)

\* a thread in copy has read the registry of the async source while an
\* emission of the source held its semaphore
RaceEmitting ==
  /\ last.op = "copy_read" /\ CopySource = NestAsync /\ last.x.taken
  /\ \E k \in Tasks : prog[k] # <<>> /\ Next1(k).e = "walk"


(***************************************************************************)
(* What a disconnect leaves alone.                                         *)
(***************************************************************************)
\* the records of a registry other than those with the given key and partner
Others(list, key, tracker) ==
  SelectSeq(list, LAMBDA slot : ~(slot.key = key /\ slot.tracker = tracker))

\* C37: disconnecting a slot from signal S1 changes only the records that
\* pair that slot with S1.  Every other record of S1 and of the receiver
\* stays, in its place; the registry of every other tracker is unchanged,
\* so another signal S2 keeps its Call-role records for the slot, the
\* receiver keeps its Track-role records with partner S2, and S1 keeps
\* its records of every other slot.
C37_DisconnectTouchesOnlyThePair ==
  [][last'.op = "disconnect" =>
       LET S1 == last'.t
           obj == last'.x
           key == bind(obj)
           P == IF obj \in Trackers THEN obj ELSE S1
       IN /\ \A t \in Trackers \ {S1, P} : slots_'[t] = slots_[t]
          /\ Others(slots_'[S1], key, P) = Others(slots_[S1], key, P)
          /\ P # S1 => Others(slots_'[P], key, S1) = Others(slots_[P], key, S1)]_vars

\* a receiver connected to two signals has been disconnected from one,
\* which keeps another slot: the other signal still calls the receiver
C37_Witness ==
  /\ last.op = "disconnect" /\ last.x \in Receivers
  /\ Records(slots_[last.t], TRUE, bind(last.x), last.x) = {}
  /\ slots_[last.t] # <<>>
  /\ \E S2 \in Signals \ {last.t} :
       /\ Records(slots_[S2], TRUE, bind(last.x), last.x) # {}
       /\ Records(slots_[last.x], FALSE, bind(last.x), S2) # {}
       /\ Direct(call(slots_, S2, 1), S2, bind(last.x)) = 1
  /\ Records(slots_[last.x], FALSE, bind(last.x), last.t) = {}


(***************************************************************************)
(* The destructor of an async signal and the walk of its emission.         *)
(***************************************************************************)
\* the thread is in the destructor of tracker t
InDestructor(c, t) == behind[c].op = "destroy" /\ behind[c].obj = t /\ prog[c] # <<>>

\* C38: a thread that destroys an async signal while an emission of that
\* signal is in flight stays at the sem_.wait() of clear() as long as the
\* emission holds the semaphore; it passes the wait, and clear() empties
\* the registry and the object is freed, only in a state in which no walk
\* of the signal is running, and while a walk is running the signal is
\* alive and its registry is the one the walk started with.
C38_DestructorWaitsForWalk ==
  /\ [](\A S \in AsyncSignals :
          /\ \A k \in Walkers(prog, S) :
               /\ alive[S] /\ aslots[S] = snap[k]
               /\ Taken(S)
          /\ \A c \in Callers :
               (InDestructor(c, S) /\ InFlight(prog, S) # {}) => Blocked(c) /\ AtWait(c, S))
  /\ [][\A S \in AsyncSignals :
          /\ \A c \in Callers :
               (InDestructor(c, S) /\ AtWait(c, S) /\ ~AtWait(c, S)') =>
                 InFlight(prog, S) = {} /\ Walkers(prog, S) = {}
          /\ (aslots'[S] # aslots[S] \/ alive'[S] # alive[S]) => Walkers(prog, S) = {}]_vars

\* a thread is blocked in the destructor of the signal while the task of
\* an emission has invoked one slot and has another one to invoke
C38_Witness ==
  \E c \in Callers : \E S \in AsyncSignals : \E k \in Tasks :
    /\ InDestructor(c, S) /\ Blocked(c)
    /\ k \in Walkers(prog, S)
    /\ Len(out[k]) = 1 /\ Len(aslots[S]) = 2 /\ Next1(k).pos = 2


(***************************************************************************)
(* connect followed by disconnect.                                         *)
(***************************************************************************)
\* signal S has no Call-role record for the slot of obj
Unconnected(s, S, obj) == Records(s[S], TRUE, bind(obj), Partner(S, obj)) = {}

\* C39: connect(x) on a signal that holds no record for x puts one record
\* at the front of the registry of the signal and, for a tracked x, one at
\* the front of the registry of the receiver; disconnect(x) applied to the
\* result gives back every registry as it was before the connect, and a
\* disconnect(x) that follows such a connect takes exactly these front
\* records away again.
C39_ConnectDisconnectRestores ==
  /\ [][(last'.op = "connect" /\ Unconnected(slots_, last'.t, last'.x)) =>
          LET S == last'.t
              x == last'.x
          IN /\ Tail(slots_'[S]) = slots_[S]
             /\ x \in Trackers => Tail(slots_'[x]) = slots_[x]
             /\ \A t \in Trackers \ {S, x} : slots_'[t] = slots_[t]
             /\ signal_remove(slots_', S, bind(x), x) = slots_]_vars
  /\ [][(/\ last.op = "connect" /\ last'.op = "disconnect"
         /\ last'.t = last.t /\ last'.x = last.x
         /\ Cardinality(Records(slots_[last.t], TRUE, bind(last.x), Partner(last.t, last.x))) = 1) =>
          LET S == last'.t
              x == last'.x
          IN /\ slots_'[S] = Tail(slots_[S])
             /\ x \in Trackers => slots_'[x] = Tail(slots_[x])
             /\ \A t \in Trackers \ {S, x} : slots_'[t] = slots_[t]]_vars

\* a receiver was connected to a signal that holds another slot and was
\* disconnected again; the receiver holds its record of another signal
C39_Witness ==
  /\ last.op = "disconnect" /\ last.x \in Receivers
  /\ Len(slots_[last.t]) >= 1
  /\ Unconnected(slots_, last.t, last.x)
  /\ \E S2 \in Signals \ {last.t} :
       Records(slots_[last.x], FALSE, bind(last.x), S2) # {}


(***************************************************************************)
(* The order in which a copy invokes its slots.                            *)
(***************************************************************************)
\* a list back to front
Rev(list) == [n \in DOMAIN list |-> list[Len(list) + 1 - n]]

\* the keys a walk of signal S invoked itself, in the order of the log
DirectKeys(l, S) ==
  LET own == SelectSeq(l, LAMBDA inv : inv.by = S)
  IN [n \in DOMAIN own |-> own[n].key]

\* C40: an emission invokes the Call-role records of the registry front
\* first, and connect puts the new record at the front, so a signal
\* invokes the slot connected last first; a copy constructed from a
\* tracker, or assigned to an empty one, holds the image of the n-th
\* record of the source at the n-th place from the back, so the keys it
\* invokes are those of the source in the reverse order.
C40_CopyInvokesInReverseOrder ==
  /\ [][last'.op = "emit" => DirectKeys(log', last'.t) = CallKeys(slots_[last'.t])]_vars
  /\ [][last'.op = "connect" =>
          CallKeys(slots_'[last'.t]) = <<bind(last'.x)>> \o CallKeys(slots_[last'.t])]_vars
  /\ [][(\/ last'.op = "copy_construct"
         \/ last'.op = "copy_assign" /\ last'.t # last'.x /\ slots_[last'.t] = <<>>) =>
          LET C == last'.t
              X == last'.x
          IN /\ slots_'[X] = slots_[X]
             /\ Len(slots_'[C]) = Len(slots_[X])
             /\ \A n \in DOMAIN slots_[X] :
                  slots_'[C][Len(slots_[X]) + 1 - n] = Image(slots_[X][n], C, X)
             /\ CallKeys(slots_'[C]) = Rev(CallKeys(slots_'[X]))]_vars

\* a signal was copy-constructed from a signal with two different slots and
\* holds them in the other order
C40_Witness ==
  /\ last.op = "copy_construct" /\ last.t \in Signals
  /\ Len(CallKeys(slots_[last.x])) = 2
  /\ CallKeys(slots_[last.x])[1] # CallKeys(slots_[last.x])[2]
  /\ CallKeys(slots_[last.t]) = <<CallKeys(slots_[last.x])[2], CallKeys(slots_[last.x])[1]>>


=============================================================================
